---- MODULE Spec2Model ----
(***************************************************************************)
(* TlsChloExtractor (quic/core/tls_chlo_extractor.cc, carried in           *)
(* src/quic/core/http/http_encoder.cc from line 420 on).                   *)
(*                                                                         *)
(* The extractor is driven by three collaborators that call back into it:  *)
(* the QUIC framer (header and CRYPTO frame upcalls), the crypto stream    *)
(* sequencer (data-available and error upcalls) and the TLS engine (the    *)
(* select-certificate upcall and the five QUIC method upcalls).  pc is the *)
(* position of the single thread of control inside IngestPacket:           *)
(*   "idle"       no IngestPacket call is in progress                      *)
(*   "header"     inside framer_->ProcessPacket, before the header upcall  *)
(*   "decrypt"    the header was accepted, the payload is being decrypted  *)
(*   "frames"     the framer is dispatching the frames of the packet       *)
(*   "handshake"  inside SSL_do_handshake, called from OnDataAvailable     *)
(* Strings are sequences of tokens, absl::StrCat is concatenation.         *)
(***************************************************************************)
EXTENDS Integers, Sequences, FiniteSets, TLC

\* ------------------------------------------------------------------ bounds
MaxPackets == 3
MovePackets == 2
MaxFrames == 2
SeqCapacity == 3
MaxFrameLen == 2
ChloLen == 2
MaxSettings == 2
MaxBytes == 2
MaxEntries == 2

\* --------------------------------------------------------------- constants
SSL3_AD_HANDSHAKE_FAILURE == 40
SSL_AD_DECODE_ERROR == 50

VARIABLES
  state_,                               \* TlsChloExtractor::state_
  error_details_,                       \* TlsChloExtractor::error_details_
  server_name_,                         \* TlsChloExtractor::server_name_
  alpns_,                               \* TlsChloExtractor::alpns_
  parsed_crypto_frame_in_this_packet_,  \* the crypto-frame-seen mark
  framer_,                              \* NoFramer or the framer's version and keys
  crypto_stream_sequencer_,             \* the reassembler: buffered offsets, read cursor
  ssl_,                                 \* the TLS session: handshake state, bytes provided
  pc,                                   \* position inside IngestPacket
  upcall,                               \* the last TLS upcall of this handshake and what it returned
  packet,                               \* history: the call in progress or last completed
  pre,                                  \* history: the observable fields when the call began
  errors_,                              \* history: the messages recorded, in order
  crypto_packets,                       \* history: packets in which the mark was set
  chlo_packet,                          \* history: crypto_packets when a full CHLO was accepted
  num_packets,                          \* history: IngestPacket calls made
  event,                                \* history: what the last CRYPTO frame set off
  binding,                              \* the extractor's address and the back-pointers to it
  call                                  \* the last HttpEncoder call: input and result

extractor_vars == <<state_, error_details_, server_name_, alpns_, errors_>>
tls_vars == <<state_, error_details_, server_name_, alpns_,
              parsed_crypto_frame_in_this_packet_, framer_,
              crypto_stream_sequencer_, ssl_, pc, upcall, packet, pre, errors_,
              crypto_packets, chlo_packet, num_packets, event, binding>>
vars == <<tls_vars, call>>

\* ------------------------------------------------------------------ State
kInitial == "Initial"
kParsedFullSinglePacketChlo == "ParsedFullSinglePacketChlo"
kParsedFullMultiPacketChlo == "ParsedFullMultiPacketChlo"
kParsedPartialChloFragment == "ParsedPartialChloFragment"
kUnrecoverableFailure == "UnrecoverableFailure"

State == {kInitial, kParsedFullSinglePacketChlo, kParsedFullMultiPacketChlo,
          kParsedPartialChloFragment, kUnrecoverableFailure}

\* --------------------------------------------------------------- versions
UnsupportedQuicVersion ==
  [handshake_protocol |-> "PROTOCOL_UNSUPPORTED", transport_version |-> "UNSUPPORTED"]

Versions ==
  { UnsupportedQuicVersion,
    [handshake_protocol |-> "PROTOCOL_QUIC_CRYPTO", transport_version |-> "Q050"],
    [handshake_protocol |-> "PROTOCOL_TLS1_3", transport_version |-> "RFC_V1"],
    [handshake_protocol |-> "PROTOCOL_TLS1_3", transport_version |-> "DRAFT_29"] }

NoFramer ==
  [version |-> [handshake_protocol |-> "null", transport_version |-> "null"],
   obfuscators |-> "null"]

ConnectionIds == {"dcid1", "dcid2"}

\* framer_ = std::make_unique<QuicFramer>(ParsedQuicVersionVector{version}, ...)
MakeFramer(version) == [version |-> version, obfuscators |-> "null"]

\* QuicFramer::IsSupportedVersion: membership in the one-element version vector
IsSupportedVersion(framer, version) == framer.version = version

\* ---------------------------------------------------------------- strings
StrCat(a, b) == a \o b

RECURSIVE JoinErrors(_)
JoinErrors(msgs) ==
  IF msgs = <<>> THEN <<>>
  ELSE IF Len(msgs) = 1 THEN msgs[1]
  ELSE JoinErrors(SubSeq(msgs, 1, Len(msgs) - 1)) \o <<"; ">> \o msgs[Len(msgs)]

\* --------------------------------------------- the extractor as a value
This == [state_ |-> state_, error_details_ |-> error_details_,
         server_name_ |-> server_name_, alpns_ |-> alpns_, errors_ |-> errors_]

Commit(x) ==
  /\ state_' = x.state_
  /\ error_details_' = x.error_details_
  /\ server_name_' = x.server_name_
  /\ alpns_' = x.alpns_
  /\ errors_' = x.errors_

HasParsedFullChlo(x) ==
  x.state_ \in {kParsedFullSinglePacketChlo, kParsedFullMultiPacketChlo}

\* HandleUnrecoverableError without the early return after a full CHLO
HandleUnrecoverableError_NoGuard(x, error_details) ==
  [x EXCEPT
     !.state_ = kUnrecoverableFailure,
     !.error_details_ =
         IF x.error_details_ = <<>>
         THEN error_details
         ELSE StrCat(StrCat(x.error_details_, <<"; ">>), error_details),
     !.errors_ = Append(x.errors_, error_details)]

\* HandleUnrecoverableError keeping only the latest message
HandleUnrecoverableError_Overwrite(x, error_details) ==
  IF HasParsedFullChlo(x)
  THEN x
  ELSE [x EXCEPT
          !.state_ = kUnrecoverableFailure,
          !.error_details_ = error_details,
          !.errors_ = Append(x.errors_, error_details)]

\* TlsChloExtractor::HandleUnrecoverableError
HandleUnrecoverableError(x, error_details) ==
  IF HasParsedFullChlo(x)
  THEN x
  ELSE [x EXCEPT
          !.state_ = kUnrecoverableFailure,
          !.error_details_ =
              IF x.error_details_ = <<>>
              THEN error_details
              ELSE StrCat(StrCat(x.error_details_, <<"; ">>), error_details),
          !.errors_ = Append(x.errors_, error_details)]

\* HandleUnexpectedCallback that reports the bug and records nothing
HandleUnexpectedCallback_LogOnly(x, callback_name) == x

\* TlsChloExtractor::HandleUnexpectedCallback
HandleUnexpectedCallback(x, callback_name) ==
  HandleUnrecoverableError(x, StrCat(<<"Unexpected callback ">>, <<callback_name>>))

\* SSL_alert_desc_string_long
AlertDescStringLong(desc) ==
  IF desc = SSL3_AD_HANDSHAKE_FAILURE THEN "handshake failure" ELSE "decode error"

Alerts == {SSL3_AD_HANDSHAKE_FAILURE, SSL_AD_DECODE_ERROR}

\* The message SendAlert records for an alert
AlertMessage(tls_alert_value) ==
  StrCat(<<"BoringSSL attempted to send alert ">>,
         <<ToString(tls_alert_value), " ", AlertDescStringLong(tls_alert_value)>>)

\* SendAlert returning early on handshake_failure whatever the state
SendAlert_AnyHandshakeFailure(x, tls_alert_value) ==
  IF tls_alert_value = SSL3_AD_HANDSHAKE_FAILURE
  THEN x
  ELSE HandleUnrecoverableError(x, AlertMessage(tls_alert_value))

\* TlsChloExtractor::SendAlert
SendAlert(x, tls_alert_value) ==
  IF tls_alert_value = SSL3_AD_HANDSHAKE_FAILURE /\ HasParsedFullChlo(x)
  THEN x
  ELSE HandleUnrecoverableError(x, AlertMessage(tls_alert_value))

\* TlsChloExtractor::OnUnrecoverableError(QuicErrorCode, const std::string&)
OnUnrecoverableError(x, error, details) ==
  HandleUnrecoverableError(x, <<"Crypto stream error ", error, ": ", details>>)

\* --------------------------------------------------------- QuicDataReader
\* The reader's result: whether the read succeeded, the piece read, the rest.
ReadFail(bytes) == [ok |-> FALSE, value |-> <<>>, rest |-> bytes]

ReadBytes(bytes, n) ==
  IF Len(bytes) < n THEN ReadFail(bytes)
  ELSE [ok |-> TRUE, value |-> SubSeq(bytes, 1, n),
        rest |-> SubSeq(bytes, n + 1, Len(bytes))]

\* QuicDataReader::ReadStringPiece16: a big-endian 16-bit length, then the bytes
ReadStringPiece16(bytes) ==
  IF Len(bytes) < 2 THEN ReadFail(bytes)
  ELSE ReadBytes(SubSeq(bytes, 3, Len(bytes)), bytes[1] * 256 + bytes[2])

\* QuicDataReader::ReadStringPiece8: an 8-bit length, then the bytes
ReadStringPiece8(bytes) ==
  IF Len(bytes) < 1 THEN ReadFail(bytes)
  ELSE ReadBytes(SubSeq(bytes, 2, Len(bytes)), bytes[1])

\* The while loop of HandleParsedChlo over alpns_payload_reader: every name
\* read is appended to alpns_ before the next one is attempted.
RECURSIVE ReadAlpnPayload(_, _)
ReadAlpnPayload(payload, alpns) ==
  IF payload = <<>> THEN [ok |-> TRUE, alpns |-> alpns]
  ELSE LET r == ReadStringPiece8(payload) IN
       IF ~r.ok THEN [ok |-> FALSE, alpns |-> alpns]
       ELSE ReadAlpnPayload(r.rest, Append(alpns, r.value))

\* The tail of HandleParsedChlo: "Update our state now that we've parsed a full CHLO."
UpdateStateOnParsedChlo(x) ==
  IF x.state_ = kInitial
  THEN [x EXCEPT !.state_ = kParsedFullSinglePacketChlo]
  ELSE IF x.state_ = kParsedPartialChloFragment
  THEN [x EXCEPT !.state_ = kParsedFullMultiPacketChlo]
  ELSE x

NoServerName == "nullptr"
NoExtension == <<-1>>

\* HandleParsedChlo taking a name that is cut short for the end of the list
HandleParsedChlo_IgnoreShortName(x, server_name, alpn_data) ==
  LET x1 == IF server_name # NoServerName
            THEN [x EXCEPT !.server_name_ = <<server_name>>]
            ELSE x
  IN IF alpn_data = NoExtension THEN UpdateStateOnParsedChlo(x1)
     ELSE LET alpns_payload == ReadStringPiece16(alpn_data) IN
          IF ~alpns_payload.ok
          THEN HandleUnrecoverableError(x1, <<"Failed to read alpns_payload">>)
          ELSE LET r == ReadAlpnPayload(alpns_payload.value, x1.alpns_)
               IN UpdateStateOnParsedChlo([x1 EXCEPT !.alpns_ = r.alpns])

\* TlsChloExtractor::HandleParsedChlo.  server_name is what SSL_get_servername
\* returns, alpn_data what SSL_early_callback_ctx_extension_get yields
\* (NoExtension when it returns 0).
HandleParsedChlo(x, server_name, alpn_data) ==
  LET x1 == IF server_name # NoServerName
            THEN [x EXCEPT !.server_name_ = <<server_name>>]
            ELSE x
  IN IF alpn_data = NoExtension THEN UpdateStateOnParsedChlo(x1)
     ELSE LET alpns_payload == ReadStringPiece16(alpn_data) IN
          IF ~alpns_payload.ok
          THEN HandleUnrecoverableError(x1, <<"Failed to read alpns_payload">>)
          ELSE LET r == ReadAlpnPayload(alpns_payload.value, x1.alpns_)
                   x2 == [x1 EXCEPT !.alpns_ = r.alpns]
               IN IF ~r.ok
                  THEN HandleUnrecoverableError(x2, <<"Failed to read alpn_payload">>)
                  ELSE UpdateStateOnParsedChlo(x2)

\* The ClientHellos the model is driven with: the server name, and the bytes
\* of the application_layer_protocol_negotiation extension.
ServerNames == {NoServerName, "example.org"}

AlpnExtensions ==
  { NoExtension,
    <<0, 3, 2, 104, 51>>,                 \* ["h3"]
    <<0, 6, 2, 104, 51, 2, 104, 50>>,     \* ["h3", "h2"]
    <<0, 5, 2, 104, 51>>,                 \* declared length exceeds the data
    <<0, 4, 2, 104, 51, 5>> }             \* second name is cut short

\* ---------------------------------------------------- QuicStreamSequencer
\* buffered: the stream offsets received and not yet consumed;
\* consumed: the read cursor (bytes handed out and marked consumed).
NewSequencer == [buffered |-> {}, consumed |-> 0]

RECURSIVE ReadableEnd(_, _)
ReadableEnd(seq, o) == IF o \in seq.buffered THEN ReadableEnd(seq, o + 1) ELSE o

\* QuicStreamSequencer::GetReadableRegion: the contiguous bytes at the cursor
GetReadableRegion(seq) ==
  LET e == ReadableEnd(seq, seq.consumed) IN
  [readable |-> e > seq.consumed, iov |-> [o \in 1..(e - seq.consumed) |-> seq.consumed + o - 1]]

ReadableBytes(seq) == Len(GetReadableRegion(seq).iov)

\* QuicStreamSequencer::MarkConsumed
MarkConsumed(seq, n) ==
  [buffered |-> {o \in seq.buffered : o >= seq.consumed + n},
   consumed |-> seq.consumed + n]

FrameOffsets(frame) == frame.offset .. (frame.offset + frame.data_length - 1)

\* QuicStreamSequencerBuffer::OnStreamData: data beyond the buffer's range is
\* an error; bytes already consumed or already buffered are not written again.
SequencerRejects(seq, frame) == frame.offset + frame.data_length > SeqCapacity

BufferFrame(seq, frame) ==
  [seq EXCEPT !.buffered = @ \cup {o \in FrameOffsets(frame) : o >= seq.consumed}]

CryptoFrames ==
  [level : {"ENCRYPTION_INITIAL", "ENCRYPTION_HANDSHAKE"},
   offset : 0 .. (SeqCapacity - 1),
   data_length : 1 .. MaxFrameLen]

\* ------------------------------------------------------------ TLS session
\* hs: "null" (no handle yet), "accept" (waiting for or reading the
\* ClientHello), "alert" (an upcall failed, the engine is about to give up),
\* "error" (the handshake has failed, which is sticky).
NoSsl == [hs |-> "null", provided |-> <<>>, levels |-> {}]

\* TlsChloExtractor::SetupSslHandle
SetupSslHandle(ssl) ==
  IF ssl.hs # "null" THEN ssl ELSE [hs |-> "accept", provided |-> <<>>, levels |-> {}]

\* SSL_provide_quic_data(ssl, level, iov_base, iov_len), rv = 1
ProvideQuicData(ssl, level, iov) ==
  [ssl EXCEPT !.provided = @ \o iov, !.levels = @ \cup {level}]

\* ------------------------------------------------------------------- Init
NoUpcall == [name |-> "none", arg |-> 0, rv |-> "none"]

Snapshot ==
  [state_ |-> state_, error_details_ |-> error_details_,
   server_name_ |-> server_name_, alpns_ |-> alpns_, framer_ |-> framer_]

NoPacket ==
  [version |-> UnsupportedQuicVersion, outcome |-> "none", frames |-> 0,
   dcid |-> "null"]

\* No HttpEncoder call was made
NoCall == [op |-> "none", done |-> FALSE]

NoEvent == [data_available |-> FALSE, provide_failed |-> FALSE, handshake |-> FALSE]

\* The addresses an extractor object can have
Addresses == {"a", "b"}

\* TlsChloExtractor::TlsChloExtractor() of the object at address this:
\* crypto_stream_sequencer_(this); no framer and no TLS session exist yet, so
\* neither QuicFramer::visitor_ nor the session's ex_data slot does.  stray
\* records that an upcall reached an object other than the extractor, rebound
\* that a move has carried a TLS session along (both are history).
Constructed(this) ==
  [this |-> this, visitor |-> "null", stream |-> this, ex_data |-> "null",
   stray |-> FALSE, rebound |-> FALSE]

\* TlsChloExtractor::GetInstanceFromSSL: SSL_get_ex_data of the session
GetInstanceFromSSL(b) == b.ex_data

\* TlsChloExtractor::TlsChloExtractor()
\* The extractor as its constructor leaves it
TlsInit ==
  /\ state_ = kInitial
  /\ error_details_ = <<>>
  /\ server_name_ = <<>>
  /\ alpns_ = <<>>
  /\ parsed_crypto_frame_in_this_packet_ = FALSE
  /\ framer_ = NoFramer
  /\ crypto_stream_sequencer_ = NewSequencer
  /\ ssl_ = NoSsl
  /\ pc = "idle"
  /\ upcall = NoUpcall
  /\ packet = NoPacket
  /\ pre = Snapshot
  /\ errors_ = <<>>
  /\ crypto_packets = 0
  /\ chlo_packet = 0
  /\ num_packets = 0
  /\ event = NoEvent
  /\ binding = Constructed("a")

Init ==
  /\ TlsInit
  /\ call = NoCall

\* ----------------------------------------------------------- IngestPacket
\* IngestPacket's checks without the check of the failure state
IngestPacketDecision_NoFailureCheck(st, framer, version) ==
  IF version = UnsupportedQuicVersion THEN "unsupported_version"
  ELSE IF version.handshake_protocol # "PROTOCOL_TLS1_3" THEN "non_tls_version"
  ELSE IF framer # NoFramer /\ ~IsSupportedVersion(framer, version)
  THEN "version_mismatch"
  ELSE "accept"

\* IngestPacket's checks without the check against the framer's version
IngestPacketDecision_NoMismatchCheck(st, framer, version) ==
  IF st = kUnrecoverableFailure THEN "after_failure"
  ELSE IF version = UnsupportedQuicVersion THEN "unsupported_version"
  ELSE IF version.handshake_protocol # "PROTOCOL_TLS1_3" THEN "non_tls_version"
  ELSE "accept"

\* The checks that drop a packet before the framer sees it (IngestPacket,
\* up to the framer set-up); "accept" when the packet goes to the framer.
IngestPacketDecision(st, framer, version) ==
  IF st = kUnrecoverableFailure THEN "after_failure"
  ELSE IF version = UnsupportedQuicVersion THEN "unsupported_version"
  ELSE IF version.handshake_protocol # "PROTOCOL_TLS1_3" THEN "non_tls_version"
  ELSE IF framer # NoFramer /\ ~IsSupportedVersion(framer, version)
  THEN "version_mismatch"
  ELSE "accept"

\* The framer the packet is processed by: set up on the first accepted packet.
FramerFor(framer, version) ==
  IF framer # NoFramer THEN framer ELSE MakeFramer(version)

\* The end of IngestPacket advancing from any state in which the mark is set
AdvanceOnPartial_NoInitialCheck(x, mark) ==
  IF mark THEN [x EXCEPT !.state_ = kParsedPartialChloFragment] ELSE x

\* The end of IngestPacket advancing from Initial whether or not the mark is set
AdvanceOnPartial_NoMarkCheck(x, mark) ==
  IF x.state_ = kInitial
  THEN [x EXCEPT !.state_ = kParsedPartialChloFragment]
  ELSE x

\* The end of IngestPacket advancing to a ParsedFull state
AdvanceOnPartial_ToFull(x, mark) ==
  IF x.state_ = kInitial /\ mark
  THEN [x EXCEPT !.state_ = kParsedFullMultiPacketChlo]
  ELSE x

\* The end of IngestPacket without the advance
AdvanceOnPartial_Never(x, mark) == x

\* The end of IngestPacket, after framer_->ProcessPacket has returned.
AdvanceOnPartial(x, mark) ==
  IF x.state_ = kInitial /\ mark
  THEN [x EXCEPT !.state_ = kParsedPartialChloFragment]
  ELSE x

\* framer_->ProcessPacket returns parse_success and IngestPacket runs to its end.
ProcessPacketReturns(x, mark, outcome) ==
  /\ Commit(AdvanceOnPartial(x, mark))
  /\ pc' = "idle"
  /\ packet' = [packet EXCEPT !.outcome = outcome]

\* TlsChloExtractor::IngestPacket, up to the call of framer_->ProcessPacket
IngestPacket(version) ==
  /\ pc = "idle"
  /\ num_packets < MaxPackets
  /\ num_packets' = num_packets + 1
  /\ pre' = Snapshot
  /\ LET d == IngestPacketDecision(state_, framer_, version) IN
     IF d # "accept"
     THEN /\ packet' = [version |-> version, outcome |-> d, frames |-> 0,
                         dcid |-> "null"]
          /\ UNCHANGED <<extractor_vars, parsed_crypto_frame_in_this_packet_,
                         framer_, pc, binding>>
     ELSE /\ packet' = [version |-> version, outcome |-> "processing",
                         frames |-> 0, dcid |-> "null"]
          /\ framer_' = FramerFor(framer_, version)
          /\ binding' = IF framer_ = NoFramer
                        THEN [binding EXCEPT !.visitor = binding.this]
                        ELSE binding
          /\ parsed_crypto_frame_in_this_packet_' = FALSE
          /\ pc' = "header"
          /\ UNCHANGED extractor_vars
  /\ event' = NoEvent
  /\ UNCHANGED <<crypto_stream_sequencer_, ssl_, upcall, crypto_packets,
                 chlo_packet, call>>

\* ---------------------------------------------------------- framer upcalls
Headers ==
  [form : {"IETF_QUIC_LONG_HEADER_PACKET"},
   long_packet_type : {"INITIAL", "HANDSHAKE"},
   destination_connection_id : ConnectionIds]
  \cup
  [form : {"IETF_QUIC_SHORT_HEADER_PACKET"},
   long_packet_type : {"INVALID_PACKET_TYPE"},
   destination_connection_id : ConnectionIds]

\* The result of TlsChloExtractor::OnUnauthenticatedPublicHeader
AcceptsHeader(header) ==
  IF header.form # "IETF_QUIC_LONG_HEADER_PACKET" THEN FALSE
  ELSE IF header.long_packet_type # "INITIAL" THEN FALSE
  ELSE TRUE

\* The header upcall seeding the Initial keys only while none are installed
SetInitialObfuscators_SeedOnce(framer, header) ==
  IF framer.obfuscators = "null"
  THEN [framer EXCEPT !.obfuscators = header.destination_connection_id]
  ELSE framer

\* framer_->SetInitialObfuscators(header.destination_connection_id)
SetInitialObfuscators(framer, header) ==
  [framer EXCEPT !.obfuscators = header.destination_connection_id]

\* A framer visitor call made through a visitor_ that does not point to the
\* extractor: it runs on the object visitor_ names, a moved-from or destroyed
\* one, the extractor is not told, and the framer goes on or gives up.
StrayVisitorCall(goes_on) ==
  /\ binding' = [binding EXCEPT !.stray = TRUE]
  /\ \/ /\ pc' = goes_on
        /\ UNCHANGED <<extractor_vars, packet>>
     \/ ProcessPacketReturns(This, parsed_crypto_frame_in_this_packet_,
                             "process_failed")

\* TlsChloExtractor::OnUnauthenticatedPublicHeader
OnUnauthenticatedPublicHeader(header) ==
  /\ pc = "header"
  /\ IF binding.visitor # binding.this
     THEN /\ StrayVisitorCall("decrypt")
          /\ UNCHANGED framer_
     ELSE IF ~AcceptsHeader(header)
     THEN /\ ProcessPacketReturns(This, parsed_crypto_frame_in_this_packet_,
                                  "header_rejected")
          /\ UNCHANGED <<framer_, binding>>
     ELSE /\ framer_' = SetInitialObfuscators(framer_, header)
          /\ pc' = "decrypt"
          /\ packet' = [packet EXCEPT !.dcid = header.destination_connection_id]
          /\ UNCHANGED <<extractor_vars, binding>>
  /\ UNCHANGED <<parsed_crypto_frame_in_this_packet_, crypto_stream_sequencer_,
                 ssl_, upcall, pre, crypto_packets, chlo_packet, num_packets,
                 event, call>>

\* QuicFramer::ProcessPacket: the payload is decrypted with the Initial keys
DecryptPayload(decrypted) ==
  /\ pc = "decrypt"
  /\ IF decrypted
     THEN /\ pc' = "frames"
          /\ UNCHANGED <<extractor_vars, packet>>
     ELSE ProcessPacketReturns(This, parsed_crypto_frame_in_this_packet_,
                               "decrypt_failed")
  /\ UNCHANGED <<parsed_crypto_frame_in_this_packet_, framer_,
                 crypto_stream_sequencer_, ssl_, upcall, pre, crypto_packets,
                 chlo_packet, num_packets, event, call, binding>>

\* TlsChloExtractor::OnDataAvailable: the read loop, then SSL_do_handshake.
\* provide_rv is what SSL_provide_quic_data returns; handshake tells whether
\* SSL_do_handshake was reached.
\* The read loop with the MarkConsumed call left out (one region is delivered)
ReadLoop_NoMarkConsumed(x, seq, ssl, provide_rv) ==
  LET region == GetReadableRegion(seq) IN
  IF ~region.readable
  THEN [x |-> x, seq |-> seq, ssl |-> ssl, provide_failed |-> FALSE,
        handshake |-> TRUE]
  ELSE IF provide_rv # 1
  THEN [x |-> HandleUnrecoverableError(x, <<"SSL_provide_quic_data failed">>),
        seq |-> seq, ssl |-> ssl, provide_failed |-> TRUE, handshake |-> FALSE]
  ELSE [x |-> x, seq |-> seq,
        ssl |-> ProvideQuicData(ssl, "ssl_encryption_initial", region.iov),
        provide_failed |-> FALSE, handshake |-> TRUE]

\* The read loop going on to SSL_do_handshake after a failed delivery
RECURSIVE ReadLoop_HandshakeAfterFailure(_, _, _, _)
ReadLoop_HandshakeAfterFailure(x, seq, ssl, provide_rv) ==
  LET region == GetReadableRegion(seq) IN
  IF ~region.readable
  THEN [x |-> x, seq |-> seq, ssl |-> ssl, provide_failed |-> FALSE,
        handshake |-> TRUE]
  ELSE IF provide_rv # 1
  THEN [x |-> HandleUnrecoverableError(x, <<"SSL_provide_quic_data failed">>),
        seq |-> seq, ssl |-> ssl, provide_failed |-> TRUE, handshake |-> TRUE]
  ELSE ReadLoop_HandshakeAfterFailure(x, MarkConsumed(seq, Len(region.iov)),
         ProvideQuicData(ssl, "ssl_encryption_initial", region.iov), provide_rv)

RECURSIVE ReadLoop(_, _, _, _)
ReadLoop(x, seq, ssl, provide_rv) ==
  LET region == GetReadableRegion(seq) IN
  IF ~region.readable
  THEN [x |-> x, seq |-> seq, ssl |-> ssl, provide_failed |-> FALSE,
        handshake |-> TRUE]
  ELSE IF provide_rv # 1
  THEN [x |-> HandleUnrecoverableError(x, <<"SSL_provide_quic_data failed">>),
        seq |-> seq, ssl |-> ssl, provide_failed |-> TRUE, handshake |-> FALSE]
  ELSE ReadLoop(x, MarkConsumed(seq, Len(region.iov)),
                ProvideQuicData(ssl, "ssl_encryption_initial", region.iov),
                provide_rv)

OnDataAvailable(x, seq, ssl, provide_rv) ==
  ReadLoop(x, seq, SetupSslHandle(ssl), provide_rv)

\* QuicStreamSequencer::OnCryptoFrame / OnFrameAtOffset
SequencerOnCryptoFrame(x, seq, ssl, frame, provide_rv) ==
  IF SequencerRejects(seq, frame)
  THEN [x |-> OnUnrecoverableError(x, "QUIC_INTERNAL_ERROR",
                                   "Received data beyond available range."),
        seq |-> seq, ssl |-> ssl, data_available |-> FALSE,
        provide_failed |-> FALSE, handshake |-> FALSE]
  ELSE LET previous_readable_bytes == ReadableBytes(seq)
           buffered == BufferFrame(seq, frame)
       IN IF previous_readable_bytes = 0 /\ ReadableBytes(buffered) > 0
          THEN LET r == OnDataAvailable(x, buffered, ssl, provide_rv) IN
               [x |-> r.x, seq |-> r.seq, ssl |-> r.ssl, data_available |-> TRUE,
                provide_failed |-> r.provide_failed, handshake |-> r.handshake]
          ELSE [x |-> x, seq |-> buffered, ssl |-> ssl, data_available |-> FALSE,
                provide_failed |-> FALSE, handshake |-> FALSE]

\* The level check of OnCryptoFrame letting every level through
AcceptsCryptoFrame_AnyLevel(frame) == frame.level = frame.level

\* The result of TlsChloExtractor::OnCryptoFrame's level check
AcceptsCryptoFrame(frame) == frame.level = "ENCRYPTION_INITIAL"

\* The sequencer makes an upcall for the frame: stream_->OnDataAvailable() or
\* stream_->OnUnrecoverableError(...)
MakesStreamUpcall(seq, frame) ==
  \/ SequencerRejects(seq, frame)
  \/ ReadableBytes(seq) = 0 /\ ReadableBytes(BufferFrame(seq, frame)) > 0

\* QuicStreamSequencer::OnCryptoFrame with a stream_ that does not point to
\* the extractor: the frame is buffered and the upcall runs on the object
\* stream_ names, so the extractor and its TLS session are not told.
SequencerOnCryptoFrameAstray(x, seq, ssl, frame) ==
  [x |-> x,
   seq |-> IF SequencerRejects(seq, frame) THEN seq ELSE BufferFrame(seq, frame),
   ssl |-> ssl, data_available |-> FALSE, provide_failed |-> FALSE,
   handshake |-> FALSE]

\* TlsChloExtractor::OnCryptoFrame
OnCryptoFrame(frame, provide_rv) ==
  /\ pc = "frames"
  /\ packet.frames < MaxFrames
  /\ IF binding.visitor # binding.this
     THEN /\ StrayVisitorCall("frames")
          /\ event' = NoEvent
          /\ UNCHANGED <<parsed_crypto_frame_in_this_packet_,
                         crypto_stream_sequencer_, ssl_, crypto_packets>>
     ELSE IF ~AcceptsCryptoFrame(frame)
     THEN /\ ProcessPacketReturns(This, parsed_crypto_frame_in_this_packet_,
                                  "process_failed")
          /\ event' = NoEvent
          /\ UNCHANGED <<parsed_crypto_frame_in_this_packet_,
                         crypto_stream_sequencer_, ssl_, crypto_packets, binding>>
     ELSE LET astray == binding.stream # binding.this
              r == IF astray
                   THEN SequencerOnCryptoFrameAstray(This, crypto_stream_sequencer_,
                                                     ssl_, frame)
                   ELSE SequencerOnCryptoFrame(This, crypto_stream_sequencer_, ssl_,
                                               frame, provide_rv)
          IN /\ parsed_crypto_frame_in_this_packet_' = TRUE
             /\ binding' =
                  [binding EXCEPT
                     !.ex_data = IF ssl_ = NoSsl /\ r.ssl # NoSsl
                                 THEN binding.this ELSE @,
                     !.stray = @ \/ (astray /\ MakesStreamUpcall(
                                                  crypto_stream_sequencer_, frame))]
             /\ crypto_packets' = IF parsed_crypto_frame_in_this_packet_
                                  THEN crypto_packets ELSE crypto_packets + 1
             /\ Commit(r.x)
             /\ crypto_stream_sequencer_' = r.seq
             /\ ssl_' = r.ssl
             /\ pc' = IF r.handshake THEN "handshake" ELSE "frames"
             /\ packet' = [packet EXCEPT !.frames = @ + 1]
             /\ event' = [data_available |-> r.data_available,
                          provide_failed |-> r.provide_failed,
                          handshake |-> r.handshake]
  /\ UNCHANGED <<framer_, upcall, pre, chlo_packet, num_packets, call>>

\* QuicFramer::ProcessPacket: a frame of the decrypted payload is malformed
FrameError ==
  /\ pc = "frames"
  /\ ProcessPacketReturns(This, parsed_crypto_frame_in_this_packet_, "process_failed")
  /\ UNCHANGED <<parsed_crypto_frame_in_this_packet_, framer_,
                 crypto_stream_sequencer_, ssl_, upcall, pre, crypto_packets,
                 chlo_packet, num_packets, event, call, binding>>

\* QuicFramer::ProcessPacket: every frame was dispatched, parse_success is true
PacketComplete ==
  /\ pc = "frames"
  /\ ProcessPacketReturns(This, parsed_crypto_frame_in_this_packet_, "processed")
  /\ UNCHANGED <<parsed_crypto_frame_in_this_packet_, framer_,
                 crypto_stream_sequencer_, ssl_, upcall, pre, crypto_packets,
                 chlo_packet, num_packets, event, call, binding>>

\* ------------------------------------------------------------- TLS upcalls
\* An upcall made by the engine inside SSL_do_handshake: the extractor
\* becomes x, the upcall returns rv, the engine's handshake state becomes hs.
Upcall(name, arg, x, rv, hs) ==
  /\ pc = "handshake"
  /\ LET astray == GetInstanceFromSSL(binding) # binding.this
         y == IF astray THEN This ELSE x
     IN /\ Commit(y)
        /\ binding' = [binding EXCEPT !.stray = @ \/ astray]
        /\ chlo_packet' = IF HasParsedFullChlo(y) /\ ~HasParsedFullChlo(This)
                          THEN crypto_packets ELSE chlo_packet
  /\ upcall' = [name |-> name, arg |-> arg, rv |-> rv]
  /\ ssl_' = [ssl_ EXCEPT !.hs = hs]
  /\ UNCHANGED <<parsed_crypto_frame_in_this_packet_, framer_,
                 crypto_stream_sequencer_, pc, packet, pre, crypto_packets,
                 num_packets, event, call>>

\* TlsChloExtractor::SelectCertCallback: the engine has a whole ClientHello
SelectCertCallback(server_name, alpn_data) ==
  /\ ssl_.hs = "accept"
  /\ Len(ssl_.provided) >= ChloLen
  /\ Upcall("SelectCertCallback", 0, HandleParsedChlo(This, server_name, alpn_data),
            "ssl_select_cert_error", "alert")

\* TlsChloExtractor::SetReadSecretCallback
SetReadSecretCallback ==
  /\ ssl_.hs = "accept"
  /\ Upcall("SetReadSecretCallback", 0, HandleUnexpectedCallback(This, "SetReadSecretCallback"), "0", "alert")

\* TlsChloExtractor::SetWriteSecretCallback
SetWriteSecretCallback ==
  /\ ssl_.hs = "accept"
  /\ Upcall("SetWriteSecretCallback", 0, HandleUnexpectedCallback(This, "SetWriteSecretCallback"), "0", "alert")

\* TlsChloExtractor::WriteMessageCallback
WriteMessageCallback ==
  /\ ssl_.hs = "accept"
  /\ Upcall("WriteMessageCallback", 0, HandleUnexpectedCallback(This, "WriteMessageCallback"), "0", "alert")

\* TlsChloExtractor::FlushFlightCallback
FlushFlightCallback ==
  /\ ssl_.hs = "accept"
  /\ Upcall("FlushFlightCallback", 0, HandleUnexpectedCallback(This, "FlushFlightCallback"), "0", "alert")

\* TlsChloExtractor::SendAlertCallback
SendAlertCallback(desc) ==
  /\ ssl_.hs \in {"accept", "alert"}
  /\ Upcall("SendAlertCallback", desc, SendAlert(This, desc), "0", "error")

\* SSL_do_handshake returns to OnDataAvailable, which returns to the framer.
\* The engine returns without an upcall only while the ClientHello is incomplete.
DoHandshakeReturns ==
  /\ pc = "handshake"
  /\ ~(ssl_.hs = "accept" /\ Len(ssl_.provided) >= ChloLen)
  /\ ssl_' = [ssl_ EXCEPT !.hs = IF @ = "alert" THEN "error" ELSE @]
  /\ upcall' = NoUpcall
  /\ pc' = "frames"
  /\ UNCHANGED <<extractor_vars, parsed_crypto_frame_in_this_packet_, framer_,
                 crypto_stream_sequencer_, packet, pre, crypto_packets,
                 chlo_packet, num_packets, event, call, binding>>

Next ==
  \/ \E version \in Versions : IngestPacket(version)
  \/ \E header \in Headers : OnUnauthenticatedPublicHeader(header)
  \/ \E decrypted \in BOOLEAN : DecryptPayload(decrypted)
  \/ FrameError
  \/ PacketComplete
  \/ \E provide_rv \in {1, 0}, frame \in CryptoFrames : OnCryptoFrame(frame, provide_rv)
  \/ \E server_name \in ServerNames, alpn_data \in AlpnExtensions :
       SelectCertCallback(server_name, alpn_data)
  \/ SetReadSecretCallback
  \/ SetWriteSecretCallback
  \/ WriteMessageCallback
  \/ FlushFlightCallback
  \/ \E desc \in Alerts : SendAlertCallback(desc)
  \/ DoHandshakeReturns

Spec == Init /\ [][Next]_vars

\* ------------------------------------------------------ move operations
\* The members of the extractor
Members ==
  [framer_ |-> framer_, crypto_stream_sequencer_ |-> crypto_stream_sequencer_,
   ssl_ |-> ssl_, state_ |-> state_, error_details_ |-> error_details_,
   parsed_crypto_frame_in_this_packet_ |-> parsed_crypto_frame_in_this_packet_,
   alpns_ |-> alpns_, server_name_ |-> server_name_]

\* TlsChloExtractor::TlsChloExtractor(): the members of a new object
DefaultConstructed ==
  [framer_ |-> NoFramer, crypto_stream_sequencer_ |-> NewSequencer,
   ssl_ |-> NoSsl, state_ |-> kInitial, error_details_ |-> <<>>,
   parsed_crypto_frame_in_this_packet_ |-> FALSE,
   alpns_ |-> <<>>, server_name_ |-> <<>>]

\* The members of an extractor that has failed on a ClientHello of its own:
\* an object a move assignment can overwrite
FailedExtractor ==
  [framer_ |-> [version |-> [handshake_protocol |-> "PROTOCOL_TLS1_3",
                             transport_version |-> "DRAFT_29"],
                obfuscators |-> "dcid2"],
   crypto_stream_sequencer_ |-> [buffered |-> {}, consumed |-> ChloLen],
   ssl_ |-> [hs |-> "error", provided |-> [o \in 1 .. ChloLen |-> o - 1],
             levels |-> {"ssl_encryption_initial"}],
   state_ |-> kUnrecoverableFailure,
   error_details_ |-> <<"Failed to read alpn_payload">>,
   parsed_crypto_frame_in_this_packet_ |-> TRUE,
   alpns_ |-> <<<<104, 51>>>>, server_name_ |-> <<"example.org">>]

\* operator=(TlsChloExtractor&&) on the members: every member of other is
\* moved or copied into this
MoveAssign(this, other) ==
  [this EXCEPT
     !.framer_ = other.framer_,
     !.crypto_stream_sequencer_ = other.crypto_stream_sequencer_,
     !.ssl_ = other.ssl_,
     !.state_ = other.state_,
     !.error_details_ = other.error_details_,
     !.parsed_crypto_frame_in_this_packet_ =
         other.parsed_crypto_frame_in_this_packet_,
     !.alpns_ = other.alpns_,
     !.server_name_ = other.server_name_]

\* operator= without the SSL_set_ex_data call
Rebind_NoExData(b, this, other) ==
  LET b1 == IF other.framer_ # NoFramer THEN [b EXCEPT !.visitor = this] ELSE b
      b2 == [b1 EXCEPT !.stream = this]
  IN [b2 EXCEPT !.this = this, !.rebound = @ \/ other.ssl_ # NoSsl]

\* operator=(TlsChloExtractor&&) on the back-pointers that come with the
\* framer, the sequencer and the TLS session of other: framer_->set_visitor(this)
\* if there is a framer, crypto_stream_sequencer_.set_stream(this),
\* SSL_set_ex_data(ssl_.get(), ex_data_index, this) if there is a session.
\* this is the address of the object assigned to.
Rebind(b, this, other) ==
  LET b1 == IF other.framer_ # NoFramer THEN [b EXCEPT !.visitor = this] ELSE b
      b2 == [b1 EXCEPT !.stream = this]
      b3 == IF other.ssl_ # NoSsl THEN [b2 EXCEPT !.ex_data = this] ELSE b2
  IN [b3 EXCEPT !.this = this, !.rebound = @ \/ other.ssl_ # NoSsl]

\* The object at address this, whose members are destination, is
\* move-assigned from the extractor; from then on it is the extractor.
MovedInto(this, destination) ==
  /\ LET m == MoveAssign(destination, Members) IN
       /\ framer_' = m.framer_
       /\ crypto_stream_sequencer_' = m.crypto_stream_sequencer_
       /\ ssl_' = m.ssl_
       /\ state_' = m.state_
       /\ error_details_' = m.error_details_
       /\ parsed_crypto_frame_in_this_packet_' =
            m.parsed_crypto_frame_in_this_packet_
       /\ alpns_' = m.alpns_
       /\ server_name_' = m.server_name_
  /\ binding' = Rebind(binding, this, Members)
  /\ UNCHANGED <<errors_, pc, upcall, packet, pre, crypto_packets, chlo_packet,
                 num_packets, event, call>>

\* TlsChloExtractor::TlsChloExtractor(TlsChloExtractor&& other): the default
\* constructor, then *this = std::move(other)
MoveConstructor(this) ==
  /\ pc = "idle"
  /\ this # binding.this
  /\ MovedInto(this, DefaultConstructed)

\* TlsChloExtractor::operator=(TlsChloExtractor&& other) on an object in use
MoveAssignment(this) ==
  /\ pc = "idle"
  /\ this # binding.this
  /\ MovedInto(this, FailedExtractor)

\* The headers of the packets of one connection
ConnectionHeaders ==
  {header \in Headers : header.destination_connection_id = "dcid1"}

\* An extractor that ingests the packets of a connection and is moved
\* between them
MoveNext ==
  \/ \E version \in Versions : num_packets < MovePackets /\ IngestPacket(version)
  \/ \E header \in ConnectionHeaders : OnUnauthenticatedPublicHeader(header)
  \/ \E decrypted \in BOOLEAN : DecryptPayload(decrypted)
  \/ FrameError
  \/ PacketComplete
  \/ \E provide_rv \in {1, 0}, frame \in CryptoFrames : OnCryptoFrame(frame, provide_rv)
  \/ \E server_name \in ServerNames, alpn_data \in AlpnExtensions :
       SelectCertCallback(server_name, alpn_data)
  \/ SetReadSecretCallback
  \/ SetWriteSecretCallback
  \/ WriteMessageCallback
  \/ FlushFlightCallback
  \/ \E desc \in Alerts : SendAlertCallback(desc)
  \/ DoHandshakeReturns
  \/ \E this \in Addresses : MoveConstructor(this)
  \/ \E this \in Addresses : MoveAssignment(this)

MoveSpec == Init /\ [][MoveNext]_vars

\* ======================================================= HTTP/3 encoder
\* A uint64_t is the tuple of its four 16-bit limbs, most significant first.
\* static_cast<uint64_t>(n) of a value below 2^31
U64(n) == <<0, 0, n \div 65536, n % 65536>>

\* The frame type codepoints of enum class HttpFrameType
HttpFrameType ==
  [DATA |-> 0, HEADERS |-> 1, SETTINGS |-> 4, GOAWAY |-> 7,
   WEBTRANSPORT_STREAM |-> 65, ACCEPT_CH |-> 137,
   PRIORITY_UPDATE_REQUEST_STREAM |-> 984832, CAPSULE |-> 16763573]

\* QuicDataWriter::GetVarInt62Len: 0 (an error) above 2^62 - 1, else the
\* least of 1, 2, 4 and 8 bytes that holds the value
GetVarInt62Len(value) ==
  IF value[1] >= 16384 THEN 0
  ELSE IF value[1] # 0 \/ value[2] # 0 \/ value[3] >= 16384 THEN 8
  ELSE IF value[3] # 0 \/ value[4] >= 16384 THEN 4
  ELSE IF value[4] >= 64 THEN 2
  ELSE 1

\* The two bytes of a limb, high byte first
LimbBytes(l) == <<l \div 256, l % 256>>

\* The big-endian bytes of a varint of the given length class: the two top
\* bits of the first byte tell the class
VarInt62Bytes(value, len) ==
  IF len = 8
  THEN LET b == LimbBytes(value[1]) \o LimbBytes(value[2]) \o
                LimbBytes(value[3]) \o LimbBytes(value[4])
       IN [b EXCEPT ![1] = @ + 192]
  ELSE IF len = 4
  THEN LET b == LimbBytes(value[3]) \o LimbBytes(value[4])
       IN [b EXCEPT ![1] = @ + 128]
  ELSE IF len = 2
  THEN LET b == LimbBytes(value[4]) IN [b EXCEPT ![1] = @ + 64]
  ELSE <<value[4]>>

\* QuicDataWriter(size, buffer): nothing written yet; ok turns false at the
\* first write that fails, and a writer that has failed writes no more (the
\* callers chain their writes with && and return at the first failure)
QuicDataWriter(size) == [capacity |-> size, bytes |-> <<>>, ok |-> TRUE]

\* QuicDataWriter::remaining
remaining(writer) == writer.capacity - Len(writer.bytes)

\* QuicDataWriter::WriteBytes
WriteBytes(writer, data) ==
  IF ~writer.ok THEN writer
  ELSE IF remaining(writer) < Len(data) THEN [writer EXCEPT !.ok = FALSE]
  ELSE [writer EXCEPT !.bytes = @ \o data]

\* QuicDataWriter::WriteVarInt62
WriteVarInt62(writer, value) ==
  LET len == GetVarInt62Len(value) IN
  IF ~writer.ok THEN writer
  ELSE IF len = 0 \/ remaining(writer) < len THEN [writer EXCEPT !.ok = FALSE]
  ELSE [writer EXCEPT !.bytes = @ \o VarInt62Bytes(value, len)]

\* QuicDataWriter::WriteStringPieceVarInt62
WriteStringPieceVarInt62(writer, string_piece) ==
  LET w == WriteVarInt62(writer, U64(Len(string_piece))) IN
  IF Len(string_piece) > 0 THEN WriteBytes(w, string_piece) ELSE w

\* The caller's output pointer before a serializer has touched it
NoOutput == [allocated |-> FALSE, capacity |-> 0, bytes |-> <<>>]

\* output->reset(new char[size]) as the writer has left it
Output(writer) ==
  [allocated |-> TRUE, capacity |-> writer.capacity, bytes |-> writer.bytes]

\* What a serializer hands back: the returned length and the output buffer
Result(length, output) == [length |-> length, output |-> output]

\* WriteFrameHeader
WriteFrameHeader(length, type, writer) ==
  WriteVarInt62(WriteVarInt62(writer, U64(type)), length)

\* GetTotalLength without the length of the frame type
GetTotalLength_NoTypeLength(payload_length, type) ==
  GetVarInt62Len(U64(payload_length)) + payload_length

\* GetTotalLength
GetTotalLength(payload_length, type) ==
  GetVarInt62Len(U64(payload_length)) + GetVarInt62Len(U64(type)) +
    payload_length

\* HttpEncoder::GetDataFrameHeaderLength
GetDataFrameHeaderLength(payload_length) ==
  GetVarInt62Len(payload_length) + GetVarInt62Len(U64(HttpFrameType.DATA))

\* HttpEncoder::SerializeDataFrameHeader: the returned QuicBuffer, whose size
\* is the returned length; an empty QuicBuffer on failure
SerializeDataFrameHeader(payload_length) ==
  LET header_length == GetDataFrameHeaderLength(payload_length)
      writer == WriteFrameHeader(payload_length, HttpFrameType.DATA,
                                 QuicDataWriter(header_length))
  IN IF writer.ok THEN Result(header_length, Output(writer))
     ELSE Result(0, [allocated |-> TRUE, capacity |-> 0, bytes |-> <<>>])

\* HttpEncoder::SerializeHeadersFrameHeader
SerializeHeadersFrameHeader(payload_length) ==
  LET header_length == GetVarInt62Len(payload_length) +
                       GetVarInt62Len(U64(HttpFrameType.HEADERS))
      writer == WriteFrameHeader(payload_length, HttpFrameType.HEADERS,
                                 QuicDataWriter(header_length))
  IN IF writer.ok THEN Result(header_length, Output(writer))
     ELSE Result(0, Output(writer))

\* operator< of uint64_t on limbs
RECURSIVE LessFrom(_, _, _)
LessFrom(a, b, i) ==
  IF i > Len(a) THEN FALSE
  ELSE IF a[i] # b[i] THEN a[i] < b[i]
  ELSE LessFrom(a, b, i + 1)

\* operator< of std::pair<uint64_t, uint64_t>
PairLess(p, q) ==
  \/ LessFrom(p[1], q[1], 1)
  \/ p[1] = q[1] /\ LessFrom(p[2], q[2], 1)

\* The pair p put into the ascending sequence s
RECURSIVE Insert(_, _)
Insert(p, s) ==
  IF s = <<>> THEN <<p>>
  ELSE IF PairLess(p, Head(s)) THEN <<p>> \o s
  ELSE <<Head(s)>> \o Insert(p, Tail(s))

\* SerializeSettingsFrame keeping the iteration order of the map
OrderedSettings_IterationOrder(values) == values

\* ordered_settings: the pairs of settings.values (in the map's iteration
\* order), then std::sort
RECURSIVE OrderedSettings(_)
OrderedSettings(values) ==
  IF values = <<>> THEN <<>>
  ELSE Insert(Head(values), OrderedSettings(Tail(values)))

\* The first loop of SerializeSettingsFrame
RECURSIVE SettingsPayloadLength(_)
SettingsPayloadLength(ordered_settings) ==
  IF ordered_settings = <<>> THEN 0
  ELSE GetVarInt62Len(Head(ordered_settings)[1]) +
       GetVarInt62Len(Head(ordered_settings)[2]) +
       SettingsPayloadLength(Tail(ordered_settings))

\* The second loop of SerializeSettingsFrame
RECURSIVE WriteSettings(_, _)
WriteSettings(writer, ordered_settings) ==
  IF ordered_settings = <<>> THEN writer
  ELSE WriteSettings(
         WriteVarInt62(WriteVarInt62(writer, Head(ordered_settings)[1]),
                       Head(ordered_settings)[2]),
         Tail(ordered_settings))

\* HttpEncoder::SerializeSettingsFrame
SerializeSettingsFrame(values) ==
  LET ordered_settings == OrderedSettings(values)
      payload_length == SettingsPayloadLength(ordered_settings)
      total_length == GetTotalLength(payload_length, HttpFrameType.SETTINGS)
      writer == WriteSettings(
                  WriteFrameHeader(U64(payload_length), HttpFrameType.SETTINGS,
                                   QuicDataWriter(total_length)),
                  ordered_settings)
  IN IF writer.ok THEN Result(total_length, Output(writer))
     ELSE Result(0, Output(writer))

\* SerializeGoAwayFrame returning total_length whatever the writes return
SerializeGoAwayFrame_IgnoreWriteResult(goaway) ==
  LET payload_length == GetVarInt62Len(goaway.id)
      total_length == GetTotalLength(payload_length, HttpFrameType.GOAWAY)
      writer == WriteVarInt62(
                  WriteFrameHeader(U64(payload_length), HttpFrameType.GOAWAY,
                                   QuicDataWriter(total_length)),
                  goaway.id)
  IN Result(total_length, Output(writer))

\* HttpEncoder::SerializeGoAwayFrame
SerializeGoAwayFrame(goaway) ==
  LET payload_length == GetVarInt62Len(goaway.id)
      total_length == GetTotalLength(payload_length, HttpFrameType.GOAWAY)
      writer == WriteVarInt62(
                  WriteFrameHeader(U64(payload_length), HttpFrameType.GOAWAY,
                                   QuicDataWriter(total_length)),
                  goaway.id)
  IN IF writer.ok THEN Result(total_length, Output(writer))
     ELSE Result(0, Output(writer))

\* SerializePriorityUpdateFrame without the test of prioritized_element_type
SerializePriorityUpdateFrame_NoTypeCheck(priority_update) ==
  LET payload_length == GetVarInt62Len(priority_update.prioritized_element_id) +
                        Len(priority_update.priority_field_value)
      total_length == GetTotalLength(payload_length,
                        HttpFrameType.PRIORITY_UPDATE_REQUEST_STREAM)
      writer == WriteBytes(
                  WriteVarInt62(
                    WriteFrameHeader(U64(payload_length),
                      HttpFrameType.PRIORITY_UPDATE_REQUEST_STREAM,
                      QuicDataWriter(total_length)),
                    priority_update.prioritized_element_id),
                  priority_update.priority_field_value)
  IN IF writer.ok THEN Result(total_length, Output(writer))
     ELSE Result(0, Output(writer))

\* HttpEncoder::SerializePriorityUpdateFrame
SerializePriorityUpdateFrame(priority_update) ==
  IF priority_update.prioritized_element_type # "REQUEST_STREAM"
  THEN Result(0, NoOutput)
  ELSE
  LET payload_length == GetVarInt62Len(priority_update.prioritized_element_id) +
                        Len(priority_update.priority_field_value)
      total_length == GetTotalLength(payload_length,
                        HttpFrameType.PRIORITY_UPDATE_REQUEST_STREAM)
      writer == WriteBytes(
                  WriteVarInt62(
                    WriteFrameHeader(U64(payload_length),
                      HttpFrameType.PRIORITY_UPDATE_REQUEST_STREAM,
                      QuicDataWriter(total_length)),
                    priority_update.prioritized_element_id),
                  priority_update.priority_field_value)
  IN IF writer.ok THEN Result(total_length, Output(writer))
     ELSE Result(0, Output(writer))

\* The first loop of SerializeAcceptChFrame
RECURSIVE AcceptChPayloadLength(_)
AcceptChPayloadLength(entries) ==
  IF entries = <<>> THEN 0
  ELSE GetVarInt62Len(U64(Len(Head(entries).origin))) + Len(Head(entries).origin) +
       GetVarInt62Len(U64(Len(Head(entries).value))) + Len(Head(entries).value) +
       AcceptChPayloadLength(Tail(entries))

\* The second loop of SerializeAcceptChFrame
RECURSIVE WriteAcceptChEntries(_, _)
WriteAcceptChEntries(writer, entries) ==
  IF entries = <<>> THEN writer
  ELSE WriteAcceptChEntries(
         WriteStringPieceVarInt62(
           WriteStringPieceVarInt62(writer, Head(entries).origin),
           Head(entries).value),
         Tail(entries))

\* HttpEncoder::SerializeAcceptChFrame
SerializeAcceptChFrame(accept_ch) ==
  LET payload_length == AcceptChPayloadLength(accept_ch.entries)
      total_length == GetTotalLength(payload_length, HttpFrameType.ACCEPT_CH)
      writer == WriteAcceptChEntries(
                  WriteFrameHeader(U64(payload_length), HttpFrameType.ACCEPT_CH,
                                   QuicDataWriter(total_length)),
                  accept_ch.entries)
  IN IF writer.ok THEN Result(total_length, Output(writer))
     ELSE Result(0, Output(writer))

\* The frame type computed in uint32_t, without the cast to uint64_t
GreasingFrameType_In32Bits(result) ==
  LET t0 == 31 * result[2] + 33
      t1 == 31 * result[1] + (t0 \div 65536)
  IN <<0, 0, t1 % 65536, t0 % 65536>>

\* 0x1fULL * static_cast<uint64_t>(result) + 0x21ULL of a uint32_t result,
\* given as its two 16-bit limbs
GreasingFrameType(result) ==
  LET t0 == 31 * result[2] + 33
      t1 == 31 * result[1] + (t0 \div 65536)
  IN <<0, t1 \div 65536, t1 % 65536, t0 % 65536>>

\* HttpEncoder::SerializeGreasingFrame: flag is
\* FLAGS_quic_enable_http3_grease_randomness, result and random_bytes are what
\* QuicRandom::RandBytes hands out
SerializeGreasingFrame(flag, result, random_bytes) ==
  LET frame_type == IF ~flag THEN U64(64) ELSE GreasingFrameType(result)
      payload_length == IF ~flag THEN 1 ELSE result[2] % 4
      payload == IF ~flag THEN <<97>> ELSE SubSeq(random_bytes, 1, payload_length)
      total_length == GetVarInt62Len(frame_type) +
                      GetVarInt62Len(U64(payload_length)) + payload_length
      header == WriteVarInt62(WriteVarInt62(QuicDataWriter(total_length), frame_type),
                              U64(payload_length))
      writer == IF payload_length > 0
                THEN WriteBytes([header EXCEPT !.ok = TRUE], payload)
                ELSE header
      success == header.ok /\ writer.ok
  IN IF success THEN Result(total_length, Output(writer))
     ELSE Result(0, Output(writer))

\* HttpEncoder::SerializeWebTransportStreamFrameHeader
SerializeWebTransportStreamFrameHeader(session_id) ==
  LET stream_type == U64(HttpFrameType.WEBTRANSPORT_STREAM)
      header_length == GetVarInt62Len(stream_type) + GetVarInt62Len(session_id)
      writer == WriteVarInt62(WriteVarInt62(QuicDataWriter(header_length), stream_type),
                              session_id)
  IN IF writer.ok /\ remaining(writer) = 0
     THEN Result(header_length, Output(writer))
     ELSE Result(0, Output(writer))

\* The capsule type codepoints of enum class CapsuleType
CapsuleType ==
  [DATAGRAM |-> U64(16725920), REGISTER_DATAGRAM_CONTEXT |-> U64(16725921),
   REGISTER_DATAGRAM_NO_CONTEXT |-> U64(16725922),
   CLOSE_DATAGRAM_CONTEXT |-> U64(16725923)]

\* An absent absl::optional<QuicDatagramContextId>
nullopt == <<>>

\* The first switch counting no context id for a DATAGRAM capsule
CapsuleDataLength_NoDatagramContextId(capsule_frame) ==
  IF capsule_frame.capsule_type \in {CapsuleType.REGISTER_DATAGRAM_CONTEXT,
                                     CapsuleType.CLOSE_DATAGRAM_CONTEXT}
  THEN GetVarInt62Len(capsule_frame.context_id) + Len(capsule_frame.data)
  ELSE Len(capsule_frame.data)

\* A capsule is [capsule_type, context_id, data]: data are the context
\* extensions, the datagram payload or the unknown capsule data of its variant.
\* The first switch of SerializeCapsuleFrame
CapsuleDataLength(capsule_frame) ==
  IF capsule_frame.capsule_type \in {CapsuleType.REGISTER_DATAGRAM_CONTEXT,
                                     CapsuleType.CLOSE_DATAGRAM_CONTEXT}
  THEN GetVarInt62Len(capsule_frame.context_id) + Len(capsule_frame.data)
  ELSE IF capsule_frame.capsule_type = CapsuleType.DATAGRAM
  THEN Len(capsule_frame.data) +
       (IF capsule_frame.context_id # nullopt
        THEN GetVarInt62Len(capsule_frame.context_id) ELSE 0)
  ELSE Len(capsule_frame.data)

\* The second switch of SerializeCapsuleFrame
WriteCapsuleData(writer, capsule_frame) ==
  IF capsule_frame.capsule_type \in {CapsuleType.REGISTER_DATAGRAM_CONTEXT,
                                     CapsuleType.CLOSE_DATAGRAM_CONTEXT}
  THEN WriteBytes(WriteVarInt62(writer, capsule_frame.context_id),
                  capsule_frame.data)
  ELSE IF capsule_frame.capsule_type = CapsuleType.DATAGRAM
  THEN WriteBytes(IF capsule_frame.context_id # nullopt
                  THEN WriteVarInt62(writer, capsule_frame.context_id)
                  ELSE writer,
                  capsule_frame.data)
  ELSE WriteBytes(writer, capsule_frame.data)

\* HttpEncoder::SerializeCapsuleFrame
SerializeCapsuleFrame(capsule_frame) ==
  LET capsule_type_length == GetVarInt62Len(capsule_frame.capsule_type)
      capsule_data_length == CapsuleDataLength(capsule_frame)
      frame_length_field_value == capsule_type_length + capsule_data_length
      total_frame_length == GetVarInt62Len(U64(HttpFrameType.CAPSULE)) +
                            GetVarInt62Len(U64(frame_length_field_value)) +
                            capsule_type_length + capsule_data_length
      writer == WriteCapsuleData(
                  WriteVarInt62(
                    WriteVarInt62(
                      WriteVarInt62(QuicDataWriter(total_frame_length),
                                    U64(HttpFrameType.CAPSULE)),
                      U64(frame_length_field_value)),
                    capsule_frame.capsule_type),
                  capsule_frame)
  IN IF writer.ok /\ remaining(writer) = 0
     THEN Result(total_frame_length, Output(writer))
     ELSE Result(0, Output(writer))

\* ------------------------------------------------------- encoder inputs
\* uint64_t values on both sides of every length class of a varint
kVarInt62MaxValue == <<16383, 65535, 65535, 65535>>

U64Samples ==
  {U64(0), U64(63), U64(64), U64(16383), U64(16384), U64(1073741823),
   <<0, 0, 16384, 0>>, kVarInt62MaxValue, <<16384, 0, 0, 0>>,
   <<65535, 65535, 65535, 65535>>}

\* uint32_t values QuicRandom can hand out
U32Samples == {<<0, 0>>, <<0, 1>>, <<0, 2>>, <<0, 3>>, <<1, 65534>>, <<65535, 65535>>}

ByteAlphabet == {0, 97}

\* The byte strings of at most MaxBytes bytes
Strings == UNION {[1 .. n -> ByteAlphabet] : n \in 0 .. MaxBytes}

\* The iteration orders of the SettingsFrame::values maps of at most
\* MaxSettings entries (a map holds an identifier once)
SettingIds == {U64(1), U64(6), U64(16384), <<16384, 0, 0, 0>>}
SettingValues == {U64(0), U64(100), <<0, 0, 16384, 0>>, <<65535, 0, 0, 0>>}
SettingsValues ==
  {values \in UNION {[1 .. n -> SettingIds \X SettingValues] : n \in 0 .. MaxSettings} :
     \A i, j \in DOMAIN values : i # j => values[i][1] # values[j][1]}

PriorityUpdateFrames ==
  [prioritized_element_type : {"REQUEST_STREAM", "PUSH_STREAM"},
   prioritized_element_id : U64Samples,
   priority_field_value : Strings]

AcceptChEntries ==
  {[origin |-> <<97>>, value |-> <<>>],
   [origin |-> <<0, 97>>, value |-> <<97>>],
   [origin |-> [i \in 1 .. 64 |-> 97], value |-> <<0>>]}
AcceptChFrames ==
  [entries : UNION {[1 .. n -> AcceptChEntries] : n \in 0 .. MaxEntries}]

CapsuleFrames ==
  [capsule_type : {CapsuleType.REGISTER_DATAGRAM_CONTEXT,
                   CapsuleType.CLOSE_DATAGRAM_CONTEXT, CapsuleType.DATAGRAM},
   context_id : U64Samples, data : Strings]
  \cup
  [capsule_type : {CapsuleType.DATAGRAM, CapsuleType.REGISTER_DATAGRAM_NO_CONTEXT,
                   U64(23), <<16384, 0, 0, 0>>},
   context_id : {nullopt}, data : Strings]

\* What FLAGS_quic_enable_http3_grease_randomness and QuicRandom can hand
\* SerializeGreasingFrame: the random bytes are as many as the payload needs
GreasingInputs ==
  {i \in [flag : BOOLEAN, result : U32Samples,
          random_bytes : UNION {[1 .. n -> ByteAlphabet] : n \in 0 .. 3}] :
     Len(i.random_bytes) = (IF i.flag THEN i.result[2] % 4 ELSE 0)}

\* ------------------------------------------------------ encoder actions
\* A call of a serializer about to be made on an input
Pending(op, input) ==
  [op |-> op, input |-> input, done |-> FALSE, result |-> Result(0, NoOutput)]

\* The calls a caller can make
Calls ==
  {Pending("SerializeDataFrameHeader", i) : i \in U64Samples \ {U64(0)}}
    \cup {Pending("SerializeHeadersFrameHeader", i) : i \in U64Samples \ {U64(0)}}
    \cup {Pending("SerializeSettingsFrame", i) : i \in SettingsValues}
    \cup {Pending("SerializeGoAwayFrame", [id |-> i]) : i \in U64Samples}
    \cup {Pending("SerializePriorityUpdateFrame", i) : i \in PriorityUpdateFrames}
    \cup {Pending("SerializeAcceptChFrame", i) : i \in AcceptChFrames}
    \cup {Pending("SerializeGreasingFrame", i) : i \in GreasingInputs}
    \cup {Pending("SerializeWebTransportStreamFrameHeader", i) : i \in U64Samples}
    \cup {Pending("SerializeCapsuleFrame", i) : i \in CapsuleFrames}

EncoderInit ==
  /\ TlsInit
  /\ call \in Calls

\* The pending call of op returns result
Returns(op, result) ==
  /\ call.op = op
  /\ ~call.done
  /\ call' = [call EXCEPT !.done = TRUE, !.result = result]
  /\ UNCHANGED tls_vars

CallSerializeDataFrameHeader ==
  /\ call.op = "SerializeDataFrameHeader"
  /\ Returns("SerializeDataFrameHeader", SerializeDataFrameHeader(call.input))

CallSerializeHeadersFrameHeader ==
  /\ call.op = "SerializeHeadersFrameHeader"
  /\ Returns("SerializeHeadersFrameHeader", SerializeHeadersFrameHeader(call.input))

CallSerializeSettingsFrame ==
  /\ call.op = "SerializeSettingsFrame"
  /\ Returns("SerializeSettingsFrame", SerializeSettingsFrame(call.input))

CallSerializeGoAwayFrame ==
  /\ call.op = "SerializeGoAwayFrame"
  /\ Returns("SerializeGoAwayFrame", SerializeGoAwayFrame(call.input))

CallSerializePriorityUpdateFrame ==
  /\ call.op = "SerializePriorityUpdateFrame"
  /\ Returns("SerializePriorityUpdateFrame",
             SerializePriorityUpdateFrame(call.input))

CallSerializeAcceptChFrame ==
  /\ call.op = "SerializeAcceptChFrame"
  /\ Returns("SerializeAcceptChFrame", SerializeAcceptChFrame(call.input))

CallSerializeGreasingFrame ==
  /\ call.op = "SerializeGreasingFrame"
  /\ Returns("SerializeGreasingFrame",
             SerializeGreasingFrame(call.input.flag, call.input.result,
                                    call.input.random_bytes))

CallSerializeWebTransportStreamFrameHeader ==
  /\ call.op = "SerializeWebTransportStreamFrameHeader"
  /\ Returns("SerializeWebTransportStreamFrameHeader",
             SerializeWebTransportStreamFrameHeader(call.input))

CallSerializeCapsuleFrame ==
  /\ call.op = "SerializeCapsuleFrame"
  /\ Returns("SerializeCapsuleFrame", SerializeCapsuleFrame(call.input))

EncoderNext ==
  \/ CallSerializeDataFrameHeader
  \/ CallSerializeHeadersFrameHeader
  \/ CallSerializeSettingsFrame
  \/ CallSerializeGoAwayFrame
  \/ CallSerializePriorityUpdateFrame
  \/ CallSerializeAcceptChFrame
  \/ CallSerializeGreasingFrame
  \/ CallSerializeWebTransportStreamFrameHeader
  \/ CallSerializeCapsuleFrame

\* Each serializer called on each input a caller can have
EncoderSpec == EncoderInit /\ [][EncoderNext]_vars

\* ================================================================= claims
Terminal == {kParsedFullSinglePacketChlo, kParsedFullMultiPacketChlo,
             kUnrecoverableFailure}

\* t occurs in s as a contiguous run of tokens
Contains(s, t) ==
  \E i \in 1 .. (Len(s) - Len(t) + 1) : SubSeq(s, i, i + Len(t) - 1) = t

\* The step a -> b of state_ is one the state machine allows
AllowedStateChange(a, b) ==
  \/ a = kInitial /\ b \in {kParsedPartialChloFragment, kParsedFullSinglePacketChlo,
                            kUnrecoverableFailure}
  \/ a = kParsedPartialChloFragment /\ b \in {kParsedFullMultiPacketChlo,
                                              kUnrecoverableFailure}

\* C1: every change of state_ is Initial -> ParsedPartialChloFragment,
\* Initial -> ParsedFullSinglePacketChlo, ParsedPartialChloFragment ->
\* ParsedFullMultiPacketChlo or Initial/ParsedPartialChloFragment ->
\* UnrecoverableFailure; so the state never goes backward, UnrecoverableFailure
\* is never left, and a ParsedFull state is never replaced by a failure.
C1_StateNeverRetreats ==
  [][state_' # state_ => AllowedStateChange(state_, state_')]_vars

\* C1 witness: a multi-packet CHLO was parsed and a later error was suppressed.
C1_Witness ==
  /\ state_ = kParsedFullMultiPacketChlo
  /\ pre.state_ = kParsedPartialChloFragment
  /\ upcall.name = "SendAlertCallback"
  /\ upcall.arg = SSL_AD_DECODE_ERROR

\* C2: once the state at the start of an IngestPacket call is terminal, the
\* call (its CRYPTO frames and every TLS upcall they trigger included) leaves
\* state, server_name and alpns as they were.
C2_TerminalIsIdempotent ==
  (packet.outcome # "none" /\ pre.state_ \in Terminal) =>
     /\ state_ = pre.state_
     /\ server_name_ = pre.server_name_
     /\ alpns_ = pre.alpns_

\* C2 witness: after a full CHLO, a later packet delivered more CRYPTO data
\* to the TLS engine and was processed to its end.
C2_Witness ==
  /\ pc = "idle"
  /\ pre.state_ = kParsedFullSinglePacketChlo
  /\ packet.outcome = "processed"
  /\ packet.frames > 0
  /\ Len(ssl_.provided) > ChloLen

\* C3: whenever has_parsed_full_chlo() is false, server_name() and alpns()
\* are empty.
C3_EmptyUnlessFullChlo ==
  ~HasParsedFullChlo(This) => (server_name_ = <<>> /\ alpns_ = <<>>)

\* C4: error_details is non-empty exactly in UnrecoverableFailure, and it is
\* the recorded messages in order of occurrence joined by "; ".
C4_ErrorDetails ==
  /\ (error_details_ # <<>>) <=> (state_ = kUnrecoverableFailure)
  /\ error_details_ = JoinErrors(errors_)

\* C4 witness: a malformed ALPN list followed by the engine's alert.
C4_Witness ==
  /\ state_ = kUnrecoverableFailure
  /\ errors_ = << <<"Failed to read alpn_payload">>,
                  AlertMessage(SSL3_AD_HANDSHAKE_FAILURE) >>

\* C5: in UnrecoverableFailure IngestPacket does nothing: the framer, the
\* reassembler and the TLS engine are not reached, and state, error_details,
\* server_name, alpns and the fixed version stay as they are.
C5_NoOpAfterFailure ==
  [][(pc = "idle" /\ state_ = kUnrecoverableFailure) =>
       UNCHANGED <<state_, error_details_, server_name_, alpns_, framer_,
                   parsed_crypto_frame_in_this_packet_,
                   crypto_stream_sequencer_, ssl_, pc>>]_vars

\* C5 witness: a packet of the fixed version was offered after the failure.
C5_Witness ==
  /\ pc = "idle"
  /\ state_ = kUnrecoverableFailure
  /\ packet.outcome = "after_failure"
  /\ packet.version = framer_.version

\* C6: the first packet that reaches the framer fixes the version; a packet
\* of another version never reaches the framer; the fixed version never
\* changes; an unsupported or non-TLS packet is dropped and fixes nothing.
C6_VersionIsFixed ==
  [][/\ framer_ # NoFramer => framer_'.version = framer_.version
     /\ (pc = "idle" /\ pc' = "header") =>
           /\ framer_'.version = packet'.version
           /\ packet'.version.handshake_protocol = "PROTOCOL_TLS1_3"
     /\ (pc = "idle" /\ packet'.version.handshake_protocol # "PROTOCOL_TLS1_3") =>
           (pc' = "idle" /\ framer_' = framer_)]_vars

\* C6 witness: a TLS packet of another version was dropped after the fix.
C6_Witness ==
  /\ pc = "idle"
  /\ packet.outcome = "version_mismatch"
  /\ packet.version.handshake_protocol = "PROTOCOL_TLS1_3"
  /\ framer_ # NoFramer
  /\ framer_.version # packet.version

Unchanged(fields) ==
  /\ state_ = fields.state_
  /\ error_details_ = fields.error_details_
  /\ server_name_ = fields.server_name_
  /\ alpns_ = fields.alpns_

\* C7 as stated: after a packet with a non-TLS or unsupported version, a
\* mismatching version, a header that is not a long-header Initial, or one
\* the framer fails to decrypt or process, state, error_details, server_name
\* and alpns are what they were before the call.
C7_IgnoredPacketAsStated ==
  (pc = "idle" /\ packet.outcome \in
      {"unsupported_version", "non_tls_version", "version_mismatch",
       "header_rejected", "decrypt_failed", "process_failed"})
  => Unchanged(pre)

\* C7 amended: the same, for a packet the framer fails to process only when
\* the failure comes before any Initial-level CRYPTO frame was dispatched.
C7_IgnoredPacket ==
  (/\ pc = "idle"
   /\ packet.outcome \in
        {"unsupported_version", "non_tls_version", "version_mismatch",
         "header_rejected", "decrypt_failed", "process_failed"}
   /\ packet.outcome = "process_failed" => packet.frames = 0)
  => Unchanged(pre)

\* C7 witness: a packet that failed to decrypt, ingested in the partial state.
C7_Witness ==
  /\ pc = "idle"
  /\ packet.outcome = "decrypt_failed"
  /\ pre.state_ = kParsedPartialChloFragment
  /\ state_ = kParsedPartialChloFragment

\* C8: the state is ParsedFullSinglePacketChlo exactly when the ClientHello
\* was accepted during the first packet in which a CRYPTO frame was seen, and
\* ParsedFullMultiPacketChlo exactly when it was accepted during a later one.
C8_PacketCountClassifies ==
  [][/\ (state_' = kParsedFullSinglePacketChlo) <=> (chlo_packet' = 1)
     /\ (state_' = kParsedFullMultiPacketChlo) <=> (chlo_packet' >= 2)
     /\ (state_ # kParsedFullMultiPacketChlo /\ state_' = kParsedFullMultiPacketChlo)
          => (state_ = kParsedPartialChloFragment /\ pre.state_ = kParsedPartialChloFragment)
     /\ (state_ # kParsedFullSinglePacketChlo /\ state_' = kParsedFullSinglePacketChlo)
          => (state_ = kInitial /\ pre.state_ = kInitial)]_vars

\* C8 witness: the CHLO completed with the second CRYPTO frame of one packet.
C8_Witness ==
  /\ state_ = kParsedFullSinglePacketChlo
  /\ upcall.name = "SelectCertCallback"
  /\ packet.frames = 2
  /\ crypto_packets = 1

\* C9: after a read-secret, write-secret, write-message or flush-flight
\* upcall made while no full CHLO was parsed, the state is
\* UnrecoverableFailure, error_details contains "Unexpected callback "
\* followed by the callback's name, and the upcall has returned 0.
AfterUnexpectedCallback(name) ==
  /\ state_' = kUnrecoverableFailure
  /\ Contains(error_details_', <<"Unexpected callback ", name>>)
  /\ upcall'.rv = "0"

C9_UnexpectedCallback ==
  [][~HasParsedFullChlo(This) =>
       /\ SetReadSecretCallback => AfterUnexpectedCallback("SetReadSecretCallback")
       /\ SetWriteSecretCallback => AfterUnexpectedCallback("SetWriteSecretCallback")
       /\ WriteMessageCallback => AfterUnexpectedCallback("WriteMessageCallback")
       /\ FlushFlightCallback => AfterUnexpectedCallback("FlushFlightCallback")]_vars

\* C9 witness: write-secret was invoked before the ClientHello was complete.
C9_Witness ==
  /\ upcall.name = "SetWriteSecretCallback"
  /\ Len(ssl_.provided) < ChloLen
  /\ state_ = kUnrecoverableFailure

\* C10 as stated: a send-alert upcall leaves state and error_details
\* unchanged if and only if a full CHLO was parsed and the alert is
\* handshake_failure.
C10_AlertToleratedAsStated ==
  [][\A desc \in Alerts :
       SendAlertCallback(desc) =>
          ((state_' = state_ /\ error_details_' = error_details_)
             <=> (HasParsedFullChlo(This) /\ desc = SSL3_AD_HANDSHAKE_FAILURE))]_vars

\* C10 amended: a send-alert upcall leaves state and error_details unchanged
\* if and only if a full CHLO was parsed, whatever the alert; before a full
\* CHLO every alert, handshake_failure included, moves the state to
\* UnrecoverableFailure and records its message.
C10_AlertTolerated ==
  [][\A desc \in Alerts :
       SendAlertCallback(desc) =>
          /\ (state_' = state_ /\ error_details_' = error_details_)
               <=> HasParsedFullChlo(This)
          /\ ~HasParsedFullChlo(This) =>
               /\ state_' = kUnrecoverableFailure
               /\ errors_' = Append(errors_, AlertMessage(desc))
               /\ Contains(error_details_', AlertMessage(desc))]_vars

\* C10 witness: an alert other than handshake_failure after a full CHLO.
C10_Witness ==
  /\ upcall.name = "SendAlertCallback"
  /\ upcall.arg = SSL_AD_DECODE_ERROR
  /\ HasParsedFullChlo(This)
  /\ error_details_ = <<>>

\* C11: server_name and alpns are each written at most once, and only in the
\* step in which the state enters a ParsedFull state: a step that changes
\* either of them starts with both empty and takes the state from outside the
\* ParsedFull states into one of them, so the alpns never hold the entries of
\* more than one select-certificate upcall.
C11_WrittenOnlyOnFullChlo ==
  [][(server_name_' # server_name_ \/ alpns_' # alpns_) =>
        /\ server_name_ = <<>>
        /\ alpns_ = <<>>
        /\ ~HasParsedFullChlo(This)
        /\ state_' \in {kParsedFullSinglePacketChlo,
                        kParsedFullMultiPacketChlo}]_vars

\* C12: the state enters a ParsedFull state only in a select-certificate
\* upcall, the upcall is made only inside a progress-handshake call, and that
\* call is made only by a data-available event that has just delivered
\* reassembled CRYPTO stream bytes to the TLS engine; no other step sets a
\* ParsedFull state.
C12_FullOnlyInSelectCert ==
  [][/\ (~HasParsedFullChlo(This) /\ state_' \in {kParsedFullSinglePacketChlo,
                                                 kParsedFullMultiPacketChlo})
          => /\ \E server_name \in ServerNames, alpn_data \in AlpnExtensions :
                  SelectCertCallback(server_name, alpn_data)
             /\ upcall'.name = "SelectCertCallback"
     /\ upcall'.name = "SelectCertCallback"
          => /\ pc = "handshake"
             /\ ssl_.provided # <<>>
             /\ Len(ssl_.provided) = crypto_stream_sequencer_.consumed
     /\ (pc # "handshake" /\ pc' = "handshake")
          => /\ Len(ssl_'.provided) > Len(ssl_.provided)
             /\ Len(ssl_'.provided) = crypto_stream_sequencer_'.consumed]_vars

\* C12 witness: a select-certificate upcall inside a progress-handshake call
\* has just set a ParsedFull state.
C12_Witness ==
  /\ pc = "handshake"
  /\ upcall.name = "SelectCertCallback"
  /\ HasParsedFullChlo(This)
  /\ ssl_.provided # <<>>

\* A step that ends an IngestPacket call whose packet reached the framer
EndsProcessPacket == pc \in {"header", "decrypt", "frames"} /\ pc' = "idle"

\* C17: at the end of IngestPacket the state advances from Initial to
\* ParsedPartialChloFragment if and only if the state is still Initial and at
\* least one Initial-level CRYPTO frame was observed while processing this
\* packet.  The mark is reset when the processing of a packet starts, so it
\* tells exactly whether this packet has had such a frame; a packet without
\* one never causes the advance, and the advance is made whether or not the
\* framer reports the packet as successfully processed.
C17_AdvanceIffCryptoFrameSeen ==
  [][/\ EndsProcessPacket =>
          /\ (state_ # state_')
               <=> (state_ = kInitial /\ parsed_crypto_frame_in_this_packet_)
          /\ state_ # state_' => state_' = kParsedPartialChloFragment
          /\ packet.frames = 0 => state_' = state_
          /\ (state_ = kInitial /\ packet.frames > 0)
               => state_' = kParsedPartialChloFragment
     /\ (pc = "idle" /\ pc' # "idle")
          => ~parsed_crypto_frame_in_this_packet_'
     /\ pc' # "idle"
          => (parsed_crypto_frame_in_this_packet_' <=> packet'.frames > 0)]_vars

\* C17 witness: a packet with an Initial-level CRYPTO frame that the framer
\* then failed to process has advanced the state from Initial.
C17_Witness ==
  /\ pc = "idle"
  /\ packet.outcome = "process_failed"
  /\ packet.frames > 0
  /\ pre.state_ = kInitial
  /\ state_ = kParsedPartialChloFragment

\* C18 as stated: the Initial keys are derived from the destination connection
\* id of the first accepted packet, and once they are seeded no later packet,
\* one with a different destination connection id included, derives them
\* again or replaces them.
C18_KeysSeededOnceAsStated ==
  [][framer_.obfuscators # "null" => framer_'.obfuscators = framer_.obfuscators]_vars

\* C18 amended: the Initial keys are derived from the destination connection
\* id of every accepted long-header Initial packet: the keys a packet is
\* decrypted with are those of its own destination connection id, a later
\* packet with a different destination connection id replaces the keys, and
\* no step other than the header upcall of an accepted packet changes them.
C18_KeysFollowHeader ==
  [][/\ pc' \in {"decrypt", "frames", "handshake"}
          => framer_'.obfuscators = packet'.dcid
     /\ framer_'.obfuscators # framer_.obfuscators
          => /\ pc = "header"
             /\ pc' = "decrypt"
             /\ \E header \in Headers :
                  /\ AcceptsHeader(header)
                  /\ OnUnauthenticatedPublicHeader(header)
                  /\ framer_'.obfuscators = header.destination_connection_id]_vars

\* C18 witness: a later accepted packet with another destination connection
\* id is being processed with keys derived from that id.
C18_Witness ==
  /\ num_packets >= 2
  /\ pc = "frames"
  /\ crypto_packets >= 1
  /\ packet.dcid = "dcid2"
  /\ framer_.obfuscators = "dcid2"
  /\ state_ = kParsedPartialChloFragment

\* A step in which OnCryptoFrame hands an Initial-level frame to the reassembler
CryptoFrameBuffered == pc = "frames" /\ packet'.frames = packet.frames + 1

\* C19 as stated: every data-available event results in exactly one call of
\* the TLS engine's progress-handshake operation, made after all readable
\* bytes were delivered, an event in which delivering bytes fails included.
C19_HandshakePerEventAsStated ==
  [][CryptoFrameBuffered =>
       /\ event'.data_available <=> pc' = "handshake"
       /\ event'.data_available =>
            ReadableBytes(crypto_stream_sequencer_') = 0]_vars

\* C19 amended: a data-available event in which every delivery succeeds
\* results in exactly one call of progress-handshake, made after all readable
\* bytes were delivered; an event in which delivering bytes fails makes no
\* progress-handshake call and reports the failure as an unrecoverable error
\* (recorded unless a full CHLO was already parsed); a CRYPTO frame that raises
\* no data-available event makes no call either, and no other step starts a
\* progress-handshake call.
C19_HandshakePerDeliveredEvent ==
  [][/\ (pc # "handshake" /\ pc' = "handshake") => CryptoFrameBuffered
     /\ CryptoFrameBuffered =>
          /\ (event'.data_available /\ ~event'.provide_failed)
               <=> pc' = "handshake"
          /\ pc' = "handshake" =>
               /\ ReadableBytes(crypto_stream_sequencer_') = 0
               /\ Len(ssl_'.provided) > Len(ssl_.provided)
          /\ event'.provide_failed =>
               /\ event'.data_available
               /\ pc' = "frames"
               /\ ssl_'.provided = ssl_.provided
               /\ ~HasParsedFullChlo(This) =>
                    /\ state_' = kUnrecoverableFailure
                    /\ errors_' = Append(errors_, <<"SSL_provide_quic_data failed">>)
               /\ HasParsedFullChlo(This) => state_' = state_]_vars

\* C19 witness: a data-available event whose delivery failed has ended without
\* a progress-handshake call.
C19_Witness ==
  /\ event.data_available
  /\ event.provide_failed
  /\ pc = "frames"
  /\ state_ = kUnrecoverableFailure
  /\ ReadableBytes(crypto_stream_sequencer_) > 0

\* C20: the bytes delivered to the TLS engine, concatenated in delivery order,
\* are a prefix of the CRYPTO stream starting at offset 0, without gap,
\* reordering or duplicate, whatever the order and overlap of the frames; all
\* of them are delivered at the Initial encryption level; they are exactly the
\* bytes the reassembler has consumed; and after a data-available event that
\* completed without error the reassembler has no readable unconsumed bytes.
C20_DeliveredIsStreamPrefix ==
  /\ \A i \in 1 .. Len(ssl_.provided) : ssl_.provided[i] = i - 1
  /\ ssl_.levels \subseteq {"ssl_encryption_initial"}
  /\ Len(ssl_.provided) = crypto_stream_sequencer_.consumed
  /\ (event.data_available /\ ~event.provide_failed)
       => ReadableBytes(crypto_stream_sequencer_) = 0
  /\ pc = "handshake" => ReadableBytes(crypto_stream_sequencer_) = 0

\* C20 witness: the whole stream was delivered by more than one data-available
\* event, the last of them in a later packet.
C20_Witness ==
  /\ Len(ssl_.provided) = SeqCapacity
  /\ crypto_packets >= 2
  /\ event.data_available
  /\ ~event.provide_failed
  /\ pc = "handshake"

\* ---------------------------------------------------- encoder claims
\* a <= b on uint64_t values
AtMost(a, b) == ~LessFrom(b, a, 1)

\* The encoded length of a varint as section 3 of the specification defines
\* it: the least of 1, 2, 4 and 8 bytes that fits the value
varint_len(v) ==
  IF AtMost(v, U64(63)) THEN 1
  ELSE IF AtMost(v, U64(16383)) THEN 2
  ELSE IF AtMost(v, U64(1073741823)) THEN 4
  ELSE 8

\* The encoding of a varint of at most 2^62 - 1
varint(v) == VarInt62Bytes(v, varint_len(v))

\* The varint fields of the input of a call
VarintFields(c) ==
  IF c.op \in {"SerializeDataFrameHeader", "SerializeHeadersFrameHeader",
               "SerializeWebTransportStreamFrameHeader"}
  THEN {c.input}
  ELSE IF c.op = "SerializeSettingsFrame"
  THEN {c.input[i][1] : i \in DOMAIN c.input} \cup
       {c.input[i][2] : i \in DOMAIN c.input}
  ELSE IF c.op = "SerializeGoAwayFrame" THEN {c.input.id}
  ELSE IF c.op = "SerializePriorityUpdateFrame"
  THEN {c.input.prioritized_element_id}
  ELSE IF c.op = "SerializeCapsuleFrame"
  THEN {c.input.capsule_type} \cup
       (IF c.input.context_id # nullopt THEN {c.input.context_id} ELSE {})
  ELSE {}

\* Every varint field of the input is at most 2^62 - 1
Encodable(c) == \A v \in VarintFields(c) : AtMost(v, kVarInt62MaxValue)

\* The PRIORITY_UPDATE of the call targets a push stream
TargetsPushStream(c) ==
  /\ c.op = "SerializePriorityUpdateFrame"
  /\ c.input.prioritized_element_type # "REQUEST_STREAM"

\* The payload bytes of a SETTINGS frame: each pair is two varints
RECURSIVE SettingsLength(_)
SettingsLength(s) ==
  IF s = <<>> THEN 0
  ELSE varint_len(Head(s)[1]) + varint_len(Head(s)[2]) + SettingsLength(Tail(s))

\* The payload bytes of an ACCEPT_CH frame: each field follows its length
RECURSIVE AcceptChLength(_)
AcceptChLength(s) ==
  IF s = <<>> THEN 0
  ELSE varint_len(U64(Len(Head(s).origin))) + Len(Head(s).origin) +
       varint_len(U64(Len(Head(s).value))) + Len(Head(s).value) +
       AcceptChLength(Tail(s))

\* The frame type of the frame a call serializes
FrameTypeOf(c) ==
  IF c.op = "SerializeDataFrameHeader" THEN U64(HttpFrameType.DATA)
  ELSE IF c.op = "SerializeHeadersFrameHeader" THEN U64(HttpFrameType.HEADERS)
  ELSE IF c.op = "SerializeSettingsFrame" THEN U64(HttpFrameType.SETTINGS)
  ELSE IF c.op = "SerializeGoAwayFrame" THEN U64(HttpFrameType.GOAWAY)
  ELSE IF c.op = "SerializePriorityUpdateFrame"
  THEN U64(HttpFrameType.PRIORITY_UPDATE_REQUEST_STREAM)
  ELSE IF c.op = "SerializeAcceptChFrame" THEN U64(HttpFrameType.ACCEPT_CH)
  ELSE IF c.op = "SerializeWebTransportStreamFrameHeader"
  THEN U64(HttpFrameType.WEBTRANSPORT_STREAM)
  ELSE IF c.op = "SerializeCapsuleFrame" THEN U64(HttpFrameType.CAPSULE)
  ELSE IF c.input.flag THEN GreasingFrameType(c.input.result)
  ELSE U64(64)

\* The number of payload bytes the frame of a call is defined to have
PayloadBytes(c) ==
  IF c.op = "SerializeSettingsFrame" THEN SettingsLength(c.input)
  ELSE IF c.op = "SerializeGoAwayFrame" THEN varint_len(c.input.id)
  ELSE IF c.op = "SerializePriorityUpdateFrame"
  THEN varint_len(c.input.prioritized_element_id) +
       Len(c.input.priority_field_value)
  ELSE IF c.op = "SerializeAcceptChFrame"
  THEN AcceptChLength(c.input.entries)
  ELSE IF c.op = "SerializeCapsuleFrame"
  THEN varint_len(c.input.capsule_type) + Len(c.input.data) +
       (IF c.input.context_id # nullopt THEN varint_len(c.input.context_id) ELSE 0)
  ELSE IF c.op = "SerializeGreasingFrame"
  THEN (IF c.input.flag THEN c.input.result[2] % 4 ELSE 1)
  ELSE 0

\* varint_len(type) + varint_len(payload_length) + payload bytes; the DATA
\* and HEADERS headers carry no payload and the WEBTRANSPORT_STREAM header
\* carries the session id in place of a length field
ExpectedLength(c) ==
  IF c.op \in {"SerializeDataFrameHeader", "SerializeHeadersFrameHeader",
               "SerializeWebTransportStreamFrameHeader"}
  THEN varint_len(FrameTypeOf(c)) + varint_len(c.input)
  ELSE varint_len(FrameTypeOf(c)) + varint_len(U64(PayloadBytes(c))) +
       PayloadBytes(c)

\* The returned length, the allocated size and the bytes written all equal n
AllLengthsAre(c, n) ==
  /\ c.result.length = n
  /\ c.result.output.allocated
  /\ c.result.output.capacity = n
  /\ Len(c.result.output.bytes) = n

\* C13 as stated: for every serializer and every input whose varint fields
\* are at most 2^62 - 1, the returned length equals the allocated buffer size,
\* equals the bytes written, and equals varint_len(type) +
\* varint_len(payload_length) + the payload bytes of the frame.
C13_LengthsAgreeAsStated ==
  (call.done /\ Encodable(call)) => AllLengthsAre(call, ExpectedLength(call))

\* C13 amended: the same for every input whose varint fields are at most
\* 2^62 - 1 and, for PRIORITY_UPDATE, whose prioritized element is a request
\* stream; a PRIORITY_UPDATE for a push stream returns 0 with no buffer
\* allocated.
C13_LengthsAgree ==
  /\ (call.done /\ Encodable(call) /\ ~TargetsPushStream(call))
       => AllLengthsAre(call, ExpectedLength(call))
  /\ (call.done /\ TargetsPushStream(call))
       => call.result = Result(0, NoOutput)

\* C13 witness: a DATAGRAM capsule whose context id is the largest varint was
\* serialized.
C13_Witness ==
  /\ call.done
  /\ call.op = "SerializeCapsuleFrame"
  /\ call.input.capsule_type = CapsuleType.DATAGRAM
  /\ call.input.context_id = kVarInt62MaxValue
  /\ Len(call.input.data) = MaxBytes
  /\ call.result.length = 4 + 1 + 4 + 8 + MaxBytes

\* The sequences that hold the same entries as s in another order
Reorderings(s) ==
  {[i \in DOMAIN s |-> s[f[i]]] :
     f \in {g \in [DOMAIN s -> DOMAIN s] : \A i, j \in DOMAIN s : i # j => g[i] # g[j]}}

\* The pairs of s are in ascending (id, value) order
Ascending(s) == \A i, j \in DOMAIN s : i < j => PairLess(s[i], s[j])

\* The encodings of the pairs of s, one after another
RECURSIVE SettingsBytes(_)
SettingsBytes(s) ==
  IF s = <<>> THEN <<>>
  ELSE varint(Head(s)[1]) \o varint(Head(s)[2]) \o SettingsBytes(Tail(s))

\* C14: SerializeSettingsFrame is canonical: inputs that hold the same
\* (id, value) pairs give the same output whatever the iteration order of the
\* map; in the output the pairs are in ascending (id, value) order; and the
\* payload length written is the sum over the pairs of
\* varint_len(id) + varint_len(value).
C14_SettingsCanonical ==
  (call.done /\ call.op = "SerializeSettingsFrame") =>
     /\ \A values \in Reorderings(call.input) :
          SerializeSettingsFrame(values) = call.result
     /\ Encodable(call) =>
          \E ordered \in Reorderings(call.input) :
             /\ Ascending(ordered)
             /\ call.result.output.bytes =
                  varint(U64(HttpFrameType.SETTINGS)) \o
                  varint(U64(SettingsLength(call.input))) \o
                  SettingsBytes(ordered)
             /\ Len(SettingsBytes(ordered)) = SettingsLength(call.input)

\* C14 witness: a map iterated in descending order of its identifiers was
\* serialized in ascending order.
C14_Witness ==
  /\ call.done
  /\ call.op = "SerializeSettingsFrame"
  /\ Len(call.input) = MaxSettings
  /\ PairLess(call.input[2], call.input[1])
  /\ Encodable(call)
  /\ call.result.length > 0
  /\ call.result.output.bytes # 
       varint(U64(HttpFrameType.SETTINGS)) \o
       varint(U64(SettingsLength(call.input))) \o SettingsBytes(call.input)

\* C15: SerializePriorityUpdateFrame with a prioritized element type other
\* than REQUEST_STREAM returns 0 and neither allocates nor modifies the output
\* buffer; with REQUEST_STREAM (and an element id of at most 2^62 - 1) the
\* frame is the PRIORITY_UPDATE_REQUEST_STREAM type, the payload length, and a
\* payload that is varint(prioritized_element_id) followed by
\* priority_field_value verbatim, with no length prefix.
C15_PriorityUpdate ==
  (call.done /\ call.op = "SerializePriorityUpdateFrame") =>
     /\ call.input.prioritized_element_type # "REQUEST_STREAM"
          => /\ call.result.length = 0
             /\ call.result.output = NoOutput
     /\ (call.input.prioritized_element_type = "REQUEST_STREAM" /\ Encodable(call))
          => LET payload == varint(call.input.prioritized_element_id) \o
                            call.input.priority_field_value
             IN /\ call.result.output.allocated
                /\ call.result.length = Len(call.result.output.bytes)
                /\ call.result.output.bytes =
                     varint(U64(HttpFrameType.PRIORITY_UPDATE_REQUEST_STREAM)) \o
                     varint(U64(Len(payload))) \o payload

\* C15 witness of the rejection: a PRIORITY_UPDATE for a push stream with an
\* encodable id and a field value was handed in and returned 0.
C15_Witness ==
  /\ call.done
  /\ call.op = "SerializePriorityUpdateFrame"
  /\ call.input.prioritized_element_type = "PUSH_STREAM"
  /\ call.input.prioritized_element_id = U64(16384)
  /\ Len(call.input.priority_field_value) = MaxBytes
  /\ call.result = Result(0, NoOutput)

\* C16: for every serializer the result is the zero / empty sentinel exactly
\* when a write fails, and that is exactly when some varint field of the input
\* (payload length, setting id or value, GOAWAY id, prioritized element id,
\* session id, context id, capsule type) exceeds 2^62 - 1 or the
\* PRIORITY_UPDATE targets a push stream; for every other input the returned
\* length is not zero, and at least 2.
C16_ZeroIffUnencodable ==
  call.done =>
     /\ call.result.length = 0 <=> (~Encodable(call) \/ TargetsPushStream(call))
     /\ call.result.length # 0 => call.result.length >= 2
     /\ (call.result.length = 0 /\ ~TargetsPushStream(call))
          => /\ call.result.output.allocated
             /\ Len(call.result.output.bytes) <= call.result.output.capacity
     /\ call.result.length # 0
          => Len(call.result.output.bytes) = call.result.length

\* C16 witness: a SETTINGS frame one of whose values exceeds 2^62 - 1 made a
\* write fail after the header was written, and 0 was returned.
C16_Witness ==
  /\ call.done
  /\ call.op = "SerializeSettingsFrame"
  /\ Len(call.input) = MaxSettings
  /\ ~Encodable(call)
  /\ call.result.length = 0
  /\ call.result.output.allocated
  /\ Len(call.result.output.bytes) >= 2

\* ------------------------------------------------------------------- C21
\* A CRYPTO frame of a level other than Initial, and the step that
\* dispatches it (the step does not depend on the frame's offset or length).
NonInitialFrame ==
  [level |-> "ENCRYPTION_HANDSHAKE", offset |-> 0, data_length |-> 1]

RejectedCryptoFrame == OnCryptoFrame(NonInitialFrame, 1)

InitialFrames == {frame \in CryptoFrames : frame.level = "ENCRYPTION_INITIAL"}

\* The reassembler was handed the frame: after the step every byte of the
\* frame is buffered or consumed, unless the reassembler refused the frame.
FrameIsAccountedFor(frame) ==
  IF SequencerRejects(crypto_stream_sequencer_, frame)
  THEN crypto_stream_sequencer_' = crypto_stream_sequencer_
  ELSE \A o \in FrameOffsets(frame) :
         \/ o < crypto_stream_sequencer_'.consumed
         \/ o \in crypto_stream_sequencer_'.buffered

\* The step hands some Initial-level frame to the reassembler: the
\* reassembler, the TLS session and the extractor are as
\* QuicStreamSequencer::OnCryptoFrame leaves them.
HandedToReassembler ==
  \E frame \in InitialFrames :
    /\ FrameIsAccountedFor(frame)
    /\ \E provide_rv \in {1, 0} :
         LET r == SequencerOnCryptoFrame(This, crypto_stream_sequencer_, ssl_,
                                         frame, provide_rv)
         IN /\ crypto_stream_sequencer_' = r.seq
            /\ ssl_' = r.ssl
            /\ state_' = r.x.state_
            /\ error_details_' = r.x.error_details_

\* What a non-Initial CRYPTO frame leaves alone: reassembler, TLS session,
\* mark; and processing of the packet stops with a failed parse.
RejectedFrameIsDropped ==
  /\ UNCHANGED <<crypto_stream_sequencer_, ssl_,
                 parsed_crypto_frame_in_this_packet_>>
  /\ pc' = "idle"
  /\ packet'.outcome = "process_failed"

AlpnDeclaredLength(ext) == ext[1] * 256 + ext[2]

AlpnListPresent(ext) ==
  Len(ext) >= 2 /\ AlpnDeclaredLength(ext) <= Len(ext) - 2

AlpnList(ext) == SubSeq(ext, 3, 2 + AlpnDeclaredLength(ext))

RECURSIVE AlpnNamesPresent(_)
AlpnNamesPresent(list) ==
  \/ list = <<>>
  \/ /\ 1 + list[1] <= Len(list)
     /\ AlpnNamesPresent(SubSeq(list, 2 + list[1], Len(list)))

RECURSIVE WireNames(_)
WireNames(list) ==
  IF list = <<>> THEN <<>>
  ELSE <<SubSeq(list, 2, 1 + list[1])>>
         \o WireNames(SubSeq(list, 2 + list[1], Len(list)))

WellFormedAlpn(ext) == AlpnListPresent(ext) /\ AlpnNamesPresent(AlpnList(ext))

FailedRead(ext) ==
  IF AlpnListPresent(ext) THEN "Failed to read alpn_payload"
  ELSE "Failed to read alpns_payload"

PresentAlpnExtensions == AlpnExtensions \ {NoExtension}

\* The step is the select-certificate upcall of the session.
SelectCertStep ==
  pc = "handshake" /\ ssl_.hs = "accept" /\ upcall'.name = "SelectCertCallback"

\* C22: in the select-certificate upcall a well-formed ALPN extension leaves
\* alpns equal to its names in wire order, and an extension with a short read
\* (declared list length or a name length beyond the bytes available) leaves
\* the state UnrecoverableFailure, not a ParsedFull state, with error_details
\* ending in the message of the read that failed.
C22_AlpnParse ==
  [][SelectCertStep =>
       \A server_name \in ServerNames, ext \in PresentAlpnExtensions :
         SelectCertCallback(server_name, ext) =>
           IF WellFormedAlpn(ext)
           THEN alpns_' = WireNames(AlpnList(ext))
           ELSE /\ state_' = kUnrecoverableFailure
                /\ error_details_' # <<>>
                /\ error_details_'[Len(error_details_')] = FailedRead(ext)]_vars

\* The upcall read one name and then met a name that is cut short.
C22_Witness ==
  /\ upcall.name = "SelectCertCallback"
  /\ state_ = kUnrecoverableFailure
  /\ error_details_ = <<"Failed to read alpn_payload">>
  /\ alpns_ = <<<<104, 51>>>>

\* ------------------------------------------------------------------- C24
\* The varint at the head of a byte string: the two top bits of the first
\* byte give its length, the remaining bits are the value, big-endian.
DecodeVarint(bytes) ==
  LET len == IF bytes[1] < 64 THEN 1 ELSE IF bytes[1] < 128 THEN 2
             ELSE IF bytes[1] < 192 THEN 4 ELSE 8
      digits == [i \in 1 .. 8 |->
                   IF i <= 8 - len THEN 0
                   ELSE IF i = 9 - len THEN bytes[1] % 64
                   ELSE bytes[i - (8 - len)]]
  IN [len |-> len,
      value |-> [l \in 1 .. 4 |-> digits[2 * l - 1] * 256 + digits[2 * l]]]

\* Quotient and remainder of a uint64_t value by 0x1f, by long division
DivMod31(v) ==
  LET a3 == v[1]
      a2 == (a3 % 31) * 65536 + v[2]
      a1 == (a2 % 31) * 65536 + v[3]
      a0 == (a1 % 31) * 65536 + v[4]
  IN [q |-> <<a3 \div 31, a2 \div 31, a1 \div 31, a0 \div 31>>, r |-> a0 % 31]

\* r + 1 of a 32-bit sample r, as an unbounded integer in 16-bit limbs
Succ32(r) ==
  IF r[2] < 65535 THEN <<0, 0, r[1], r[2] + 1>>
  ELSE IF r[1] < 65535 THEN <<0, 0, r[1] + 1, 0>>
  ELSE <<0, 1, 0, 0>>

\* t = 0x1f * r + 0x21 in the integers, that is t = 0x1f * (r + 1) + 2
IsGreaseTypeOf(t, r) == DivMod31(t).q = Succ32(r) /\ DivMod31(t).r = 2

RandomizedGreasing ==
  call.op = "SerializeGreasingFrame" /\ call.done /\ call.input.flag

\* C24: in randomized greasing mode the frame type written is
\* 0x1f * r + 0x21 of the sample r without wrap-around, congruent to 0x21
\* modulo 0x1f and at most 2^62 - 1; the payload length is r mod 4; the
\* returned length is never 0 and equals
\* varint_len(frame_type) + 1 + payload_length, the frame being the type, the
\* one-byte length and the random payload.
C24_GreasingFrame ==
  RandomizedGreasing =>
    LET r == call.input.result
        bytes == call.result.output.bytes
        frame_type == DecodeVarint(bytes).value
        payload_length == r[2] % 4
    IN /\ call.result.length # 0
       /\ IsGreaseTypeOf(frame_type, r)
       /\ DivMod31(frame_type).r = 33 % 31
       /\ AtMost(frame_type, kVarInt62MaxValue)
       /\ payload_length \in 0 .. 3
       /\ call.result.length = varint_len(frame_type) + 1 + payload_length
       /\ bytes = varint(frame_type) \o <<payload_length>> \o call.input.random_bytes

\* The largest sample: 0x1f * (2^32 - 1) + 0x21 = 0x1f00000002 needs more than
\* 32 bits, is written as an 8-byte varint, and three payload bytes follow.
C24_Witness ==
  /\ RandomizedGreasing
  /\ call.input.result = <<65535, 65535>>
  /\ call.result.length = 12
  /\ SubSeq(call.result.output.bytes, 1, 9) = <<192, 0, 0, 31, 0, 0, 0, 2, 3>>

\* ------------------------------------------------------------------- C25
\* The variant of a capsule, by its type codepoint
CapsuleVariant(capsule) ==
  IF capsule.capsule_type = CapsuleType.REGISTER_DATAGRAM_CONTEXT
  THEN "REGISTER_DATAGRAM_CONTEXT"
  ELSE IF capsule.capsule_type = CapsuleType.CLOSE_DATAGRAM_CONTEXT
  THEN "CLOSE_DATAGRAM_CONTEXT"
  ELSE IF capsule.capsule_type = CapsuleType.DATAGRAM THEN "DATAGRAM"
  ELSE IF capsule.capsule_type = CapsuleType.REGISTER_DATAGRAM_NO_CONTEXT
  THEN "REGISTER_DATAGRAM_NO_CONTEXT"
  ELSE "UNKNOWN"

\* The body of a capsule as section 3 of the specification lays it out:
\* the context id of the variants that carry one, then the variant's bytes
CapsuleBody(capsule) ==
  LET variant == CapsuleVariant(capsule) IN
  IF variant \in {"REGISTER_DATAGRAM_CONTEXT", "CLOSE_DATAGRAM_CONTEXT"}
  THEN varint(capsule.context_id) \o capsule.data
  ELSE IF variant = "DATAGRAM" /\ capsule.context_id # nullopt
  THEN varint(capsule.context_id) \o capsule.data
  ELSE capsule.data

EncodableCapsule ==
  call.op = "SerializeCapsuleFrame" /\ call.done /\ Encodable(call)

\* C25: for every capsule variant with encodable varints the bytes written
\* are varint(CAPSULE), varint(inner_len), varint(capsule_type) and the body,
\* with inner_len = varint_len(capsule_type) + body_len; the bytes written
\* fill the buffer sized by the first pass, so nothing remains and the
\* returned length is the computed total, never the 0 of a length mismatch.
C25_CapsuleFrame ==
  EncodableCapsule =>
    LET capsule == call.input
        body == CapsuleBody(capsule)
        inner_len == varint_len(capsule.capsule_type) + Len(body)
        frame == varint(U64(HttpFrameType.CAPSULE)) \o varint(U64(inner_len))
                   \o varint(capsule.capsule_type) \o body
    IN /\ call.result.output.allocated
       /\ call.result.output.bytes = frame
       /\ call.result.output.capacity - Len(call.result.output.bytes) = 0
       /\ call.result.length = Len(frame)
       /\ call.result.length # 0

\* A DATAGRAM capsule with a two-byte context id and a full payload was
\* serialized: 4 + 1 + 4 + 2 + MaxBytes bytes.
C25_Witness ==
  /\ EncodableCapsule
  /\ CapsuleVariant(call.input) = "DATAGRAM"
  /\ call.input.context_id = U64(16383)
  /\ Len(call.input.data) = MaxBytes
  /\ call.result.length = 11 + MaxBytes
  /\ SubSeq(call.result.output.bytes, 10, 11) = <<127, 255>>

\* ------------------------------------------------------------------- C23
\* The step moves the extractor to another object.
MoveStep == binding'.this # binding.this

\* Every back-pointer that exists names the extractor: the framer's visitor,
\* the reassembler's stream, the TLS session's ex_data slot.
BoundToThis ==
  /\ binding.stream = binding.this
  /\ framer_ # NoFramer => binding.visitor = binding.this
  /\ ssl_ # NoSsl => GetInstanceFromSSL(binding) = binding.this

\* The step changes the extractor as HandleParsedChlo run on its own members.
RunsHandleParsedChlo ==
  \E server_name \in ServerNames, alpn_data \in AlpnExtensions :
    LET x == HandleParsedChlo(This, server_name, alpn_data)
    IN /\ state_' = x.state_
       /\ error_details_' = x.error_details_
       /\ server_name_' = x.server_name_
       /\ alpns_' = x.alpns_

\* C23: a move leaves in the destination the source's state, error_details,
\* server_name, alpns, framer, reassembler and TLS session; after it every
\* framer visitor call, reassembler upcall and TLS upcall is dispatched to
\* the destination and none to another object; and the packets ingested
\* afterwards act on the destination as they would on the original: a CRYPTO
\* frame is handed to the reassembler with the extractor's members and the
\* select-certificate upcall runs HandleParsedChlo on them.
C23_MovePreservesExtractor ==
  [][/\ MoveStep =>
          UNCHANGED <<state_, error_details_, server_name_, alpns_, framer_,
                      crypto_stream_sequencer_, ssl_,
                      parsed_crypto_frame_in_this_packet_>>
     /\ BoundToThis'
     /\ ~binding'.stray
     /\ CryptoFrameBuffered => HandedToReassembler
     /\ SelectCertStep => RunsHandleParsedChlo]_vars

\* An extractor that held a partial ClientHello, a framer and a TLS session
\* was moved to another object, and the packet being ingested there has
\* completed the ClientHello: the select-certificate upcall has just reached
\* the destination.
C23_Witness ==
  /\ binding.this = "b"
  /\ binding.rebound
  /\ pc = "handshake"
  /\ upcall.name = "SelectCertCallback"
  /\ state_ = kParsedFullMultiPacketChlo
  /\ alpns_ = <<<<104, 51>>, <<104, 50>>>>
  /\ chlo_packet = MovePackets

====
